---- MODULE Spec2Model ----
(***************************************************************************)
(* Binary encodings of chain-libs: block and fragment framing, the         *)
(* tag-length parameter codec, and the properties claimed of them.         *)
(* Byte streams are sequences of naturals in 0..255; a reader is the       *)
(* sequence of bytes not yet consumed.                                     *)
(***************************************************************************)
EXTENDS Integers, Sequences, FiniteSets, TLC

VARIABLES
    \* ---- Block::deserialize (chain-impl-mockchain/src/block/mod.rs)
    blk_in,                  \* the input: header fields, fragments written, stray tail
    reader,                  \* bytes of the stream not yet consumed by the codec
    header,                  \* the decoded header
    remaining_content_size,  \* the loop's counter
    contents,                \* ContentsBuilder: raw payloads of the accepted fragments
    blk_pc,                  \* "start", "loop", "done"
    blk_result,              \* "none", "Ok", "HeaderError", "IoError", "StructureInvalid", "InvalidData"
    blk_msg,                 \* which message the error carries
    \* ---- FragmentRaw (chain-impl-mockchain/src/fragment/raw.rs)
    raw_in,                  \* the FragmentRaw serialized
    raw_bytes,               \* the bytes serialize wrote
    raw_out,                 \* what deserialize returned from them
    raw_pc,                  \* "start", "serialized", "deserialized"
    \* ---- Tag and TagLen (chain-impl-mockchain/src/config.rs)
    tl_in,                   \* the arguments: a tag and a length, or a raw 16-bit number
    tl_new,                  \* TagLen::new's result (Option<TagLen>), or TagLen(raw)
    tl_tag,                  \* get_tag() of it
    tl_len,                  \* get_len() of it
    tl_from,                 \* Tag::from_u16 of the tag's number, or of the raw number
    tl_pc,                   \* "new", "raw", "done"
    \* ---- ConfigParam (chain-impl-mockchain/src/config.rs)
    cp_in,                   \* the ConfigParam encoded
    cp_payload,              \* to_payload() of its field
    cp_variant,              \* from_payload() of that payload
    cp_bytes,                \* what serialize wrote, or its failure
    cp_out,                  \* what read / deserialize returned from those bytes
    cp_pc,                   \* "start", "payload", "from_payload", "serialized", "read", "deserialized"
    \* ---- ConfigParams (chain-impl-mockchain/src/fragment/config.rs)
    cps_in,                  \* the list encoded
    cps_bytes,               \* what serialize wrote
    cps_out,                 \* what read returned from those bytes
    cps_pc,                  \* "start", "serialized", "read"
    \* ---- PercentStake (chain-impl-mockchain/src/stake/stake.rs)
    ps_args,                 \* << stake, total, v >>
    ps_self,                 \* the PercentStake built by new
    ps_out,                  \* what scale_value returned, or the panic
    ps_pc,                   \* "start", "built", "scaled", "panicked"
    \* ---- Stake (chain-impl-mockchain/src/stake/stake.rs)
    st_vals,                 \* the stakes operated on
    st_n,                    \* the number of parts asked of split_in
    overflow_checks,         \* whether the build panics on integer overflow
    st_split,                \* split_in's SplitValueIn
    st_out,                  \* the Stake an operation returned, or the panic
    st_pc,                   \* "start", "split", "recombined", "added", "add_assigned", "summed", "panicked"
    \* ---- Pots (chain-impl-mockchain/src/ledger/pots.rs)
    pots,                    \* fees, treasury, rewards
    pots_last,               \* the last call made on the pots
    pots_prev,               \* the call before it
    pots_ops,                \* the number of calls made
    \* ---- Entries, the iterator of Pots (chain-impl-mockchain/src/ledger/pots.rs)
    it_state,                \* the IterState of the current iterator, "none" before any
    it_out,                  \* what the calls of next() on it returned, in order
    it_made,                 \* the number of iterators created
    \* ---- ledger entries (chain-impl-mockchain/src/ledger/recovery.rs)
    rec_in,                  \* the entries serialized, the pot entry packed, or the bytes unpacked
    rec_pos,                 \* the number of entries written so far
    rec_bytes,               \* the bytes written
    rec_out,                 \* what an unpack function returned
    rec_pc                   \* "serialize", "end", "pot", "packed", "unpack", "done"

blockVars == << blk_in, reader, header, remaining_content_size, contents,
                blk_pc, blk_result, blk_msg >>
rawVars == << raw_in, raw_bytes, raw_out, raw_pc >>
tagVars == << tl_in, tl_new, tl_tag, tl_len, tl_from, tl_pc >>
cpVars == << cp_in, cp_payload, cp_variant, cp_bytes, cp_out, cp_pc >>
cpsVars == << cps_in, cps_bytes, cps_out, cps_pc >>
percentVars == << ps_args, ps_self, ps_out, ps_pc >>
stakeVars == << st_vals, st_n, overflow_checks, st_split, st_out, st_pc >>
potsVars == << pots, pots_last, pots_prev, pots_ops >>

codecVars == << blockVars, rawVars, tagVars, cpVars, cpsVars >>
itVars == << it_state, it_out, it_made >>
recVars == << rec_in, rec_pos, rec_bytes, rec_out, rec_pc >>
moreVars == << itVars, recVars >>
ledgerVars == << percentVars, stakeVars, potsVars, moreVars >>

vars == << codecVars, ledgerVars >>

-----------------------------------------------------------------------------
(* Bounds of the model *)

MaxPayload == 2      \* longest fragment payload written to a block's stream
MaxFragments == 2    \* most fragments written to a block's stream
HashRange == 5       \* number of distinct digests
MaxRawLen == 3       \* longest FragmentRaw enumerated byte by byte
MaxParams == 2       \* longest ConfigParams list
MaxBlockHashes == 2  \* most block hashes in an EvmConfigParams environment
MaxResize == 2       \* most bytes cut from or added to a payload
MaxValue == 6        \* the values scaled are 0..MaxValue and 1000
MaxStake == 6        \* the stakes of a PercentStake are 0..MaxStake and 999
MaxStakes == 3       \* most stakes added up
MaxOps == 2          \* most calls made on a Pots
MaxIters == 2        \* most Entries iterators created from a Pots
MaxNext == 5         \* most calls of next() on an iterator
MaxEntries == 2      \* most entries of a serialized ledger
BodyLen == 1         \* bytes written for an entry other than a pot entry

PayloadBytes == {7}
StrayBytes == {0}

-----------------------------------------------------------------------------
(* chain-ser/src/packer.rs: big-endian integers over a byte stream *)

RECURSIVE FromBE(_)
\* u16/u32/u64::from_be_bytes
FromBE(bytes) ==
    IF bytes = <<>> THEN 0
    ELSE FromBE(SubSeq(bytes, 1, Len(bytes) - 1)) * 256 + bytes[Len(bytes)]

RECURSIVE ToBE(_, _)
\* to_be_bytes of a w-byte integer: the low w bytes of n, most significant first
ToBE(n, w) ==
    IF w = 0 THEN <<>>
    ELSE Append(ToBE(n \div 256, w - 1), n % 256)

RECURSIVE ToLE(_, _)
\* to_le_bytes: the same bytes, least significant first
ToLE(n, w) ==
    IF w = 0 THEN <<>>
    ELSE << n % 256 >> \o ToLE(n \div 256, w - 1)

\* Codec::put_u32
put_u32_le(v) == ToLE(v, 4)
put_u32(v) == ToBE(v, 4)

\* Codec::get_u32 on reader r: read_exact of 4 bytes, then from_be_bytes
get_u32(r) ==
    IF Len(r) < 4
    THEN [ok |-> FALSE, val |-> 0, rest |-> r]
    ELSE [ok |-> TRUE, val |-> FromBE(SubSeq(r, 1, 4)), rest |-> SubSeq(r, 5, Len(r))]

-----------------------------------------------------------------------------
(* fragment/raw.rs: FragmentRaw, a payload framed by its 32-bit length *)

\* FragmentRaw::size_bytes_plus_size
size_bytes_plus_size_no_prefix(raw) == Len(raw)
size_bytes_plus_size(raw) == 4 + Len(raw)

\* impl Serialize for FragmentRaw
FragmentRawSerialize(raw) == put_u32(Len(raw)) \o raw

\* impl Deserialize for FragmentRaw: get_u32, then read_exact of that many bytes
FragmentRawDeserialize(r) ==
    LET size == get_u32(r) IN
    IF ~size.ok
    THEN [ok |-> FALSE, raw |-> <<>>, rest |-> r]
    ELSE IF Len(size.rest) < size.val
    THEN [ok |-> FALSE, raw |-> <<>>, rest |-> size.rest]
    ELSE [ok |-> TRUE,
          raw |-> SubSeq(size.rest, 1, size.val),
          rest |-> SubSeq(size.rest, size.val + 1, Len(size.rest))]

-----------------------------------------------------------------------------
(* Contents and its digest *)

RECURSIVE SerializeContents(_)
\* the fragments' framed encodings in content order (Block::serialize's loop)
SerializeContents(frags) ==
    IF frags = <<>> THEN <<>>
    ELSE FragmentRawSerialize(Head(frags)) \o SerializeContents(Tail(frags))

RECURSIVE HashBytes(_)
\* the digest of a byte run, in 0..HashRange-1
HashBytes(bytes) ==
    IF bytes = <<>> THEN 0
    ELSE (HashBytes(SubSeq(bytes, 1, Len(bytes) - 1)) * 3 + bytes[Len(bytes)] + 1) % HashRange

\* Contents::compute_hash_size: digest and length of the framed fragments
compute_hash_size(frags) ==
    << HashBytes(SerializeContents(frags)), Len(SerializeContents(frags)) >>

-----------------------------------------------------------------------------
(* The inputs of Block::deserialize *)

Payloads == UNION { [1..n -> PayloadBytes] : n \in 0..MaxPayload }
FragmentLists == UNION { [1..n -> Payloads] : n \in 0..MaxFragments }
Tails == {<<>>} \cup { <<b>> : b \in StrayBytes }
MaxContentSize == (4 + MaxPayload) * MaxFragments + 1

NoHeader == [content_size |-> 0, content_hash |-> 0]

BlockIdle ==
    /\ blk_in = [hdr_ok |-> FALSE, content_size |-> 0, content_hash |-> 0,
                 frags |-> <<>>, tail |-> <<>>]
    /\ reader = <<>>
    /\ header = NoHeader
    /\ remaining_content_size = 0
    /\ contents = <<>>
    /\ blk_pc = "idle"
    /\ blk_result = "none"
    /\ blk_msg = ""

BlockInit ==
    \E frags \in FragmentLists, tail \in Tails, sz \in 0..MaxContentSize,
       h \in 0..(HashRange - 1), hdr_ok \in BOOLEAN :
        /\ blk_in = [hdr_ok |-> hdr_ok, content_size |-> sz, content_hash |-> h,
                     frags |-> frags, tail |-> tail]
        /\ reader = SerializeContents(frags) \o tail
        /\ header = NoHeader
        /\ remaining_content_size = 0
        /\ contents = <<>>
        /\ blk_pc = "start"
        /\ blk_result = "none"
        /\ blk_msg = ""

\* block/mod.rs 115-119: the framed header is read and decoded
BlockDeserializeHeader ==
    /\ blk_pc = "start"
    /\ IF blk_in.hdr_ok
       THEN /\ header' = [content_size |-> blk_in.content_size,
                          content_hash |-> blk_in.content_hash]
            /\ remaining_content_size' = blk_in.content_size
            /\ blk_pc' = "loop"
            /\ UNCHANGED << blk_result, blk_msg >>
       ELSE /\ blk_pc' = "done"
            /\ blk_result' = "HeaderError"
            /\ blk_msg' = "header"
            /\ UNCHANGED << header, remaining_content_size >>
    /\ contents' = <<>>
    /\ UNCHANGED << blk_in, reader, rawVars, tagVars, cpVars, cpsVars, ledgerVars >>

\* the loop condition of block/mod.rs 121
LoopContinues_at_zero(remaining) == remaining >= 0
LoopContinues(remaining) == remaining > 0

\* the test of block/mod.rs 125
FragmentTooBig_or_equal(message_size, remaining) == message_size >= remaining
FragmentTooBig_for_header(message_size, remaining) == message_size > header.content_size
FragmentTooBig_never(message_size, remaining) == FALSE
FragmentTooBig(message_size, remaining) == message_size > remaining

\* block/mod.rs 121-137: one iteration of the fragment loop
BlockReadFragment ==
    /\ blk_pc = "loop"
    /\ LoopContinues(remaining_content_size)
    /\ LET message_raw == FragmentRawDeserialize(reader)
           message_size == size_bytes_plus_size(message_raw.raw)
       IN  /\ reader' = message_raw.rest
           /\ IF ~message_raw.ok
              THEN /\ blk_pc' = "done"
                   /\ blk_result' = "IoError"
                   /\ blk_msg' = "short read"
                   /\ UNCHANGED << remaining_content_size, contents >>
              ELSE IF FragmentTooBig(message_size, remaining_content_size)
              THEN /\ blk_pc' = "done"
                   /\ blk_result' = "StructureInvalid"
                   /\ blk_msg' = "fragment exceeds remaining"
                   /\ UNCHANGED << remaining_content_size, contents >>
              ELSE \/ \* Fragment::from_raw rejects the payload
                      /\ blk_pc' = "done"
                      /\ blk_result' = "StructureInvalid"
                      /\ blk_msg' = "from_raw"
                      /\ UNCHANGED << remaining_content_size, contents >>
                   \/ \* Fragment::from_raw accepts it
                      /\ contents' = Append(contents, message_raw.raw)
                      /\ remaining_content_size' = remaining_content_size - message_size
                      /\ UNCHANGED << blk_pc, blk_result, blk_msg >>
    /\ UNCHANGED << blk_in, header, rawVars, tagVars, cpVars, cpsVars, ledgerVars >>

\* the comparison of block/mod.rs 142
ContentHashDiffers_inverted(declared, computed) == declared = computed
ContentHashDiffers(declared, computed) == declared # computed

\* block/mod.rs 139-150: the loop is over; the content hash is recomputed
BlockCheckHash ==
    /\ blk_pc = "loop"
    /\ ~LoopContinues(remaining_content_size)
    /\ LET content_hash == compute_hash_size(contents)[1] IN
       IF ContentHashDiffers(header.content_hash, content_hash)
       THEN /\ blk_result' = "InvalidData"
            /\ blk_msg' = "content hash"
       ELSE /\ blk_result' = "Ok"
            /\ blk_msg' = ""
    /\ blk_pc' = "done"
    /\ UNCHANGED << blk_in, reader, header, remaining_content_size, contents, rawVars, tagVars, cpVars, cpsVars, ledgerVars >>

BlockNext ==
    \/ BlockDeserializeHeader
    \/ BlockReadFragment
    \/ BlockCheckHash

-----------------------------------------------------------------------------
(* FragmentRaw: serialize, then deserialize what was written *)

RawBytes == {0, 1, 255}
LongRawLens == {256, 300}

RawPayloads ==
    UNION { [1..n -> RawBytes] : n \in 0..MaxRawLen }
        \cup { [i \in 1..n |-> 1] : n \in LongRawLens }

NoRaw == [ok |-> FALSE, raw |-> <<>>, rest |-> <<>>]

RawIdle ==
    /\ raw_in = <<>>
    /\ raw_bytes = <<>>
    /\ raw_out = NoRaw
    /\ raw_pc = "idle"

RawInit ==
    /\ raw_in \in RawPayloads
    /\ raw_bytes = <<>>
    /\ raw_out = NoRaw
    /\ raw_pc = "start"

\* raw.rs 38-48
RawSerialize ==
    /\ raw_pc = "start"
    /\ raw_bytes' = FragmentRawSerialize(raw_in)
    /\ raw_pc' = "serialized"
    /\ UNCHANGED << raw_in, raw_out, blockVars, tagVars, cpVars, cpsVars, ledgerVars >>

\* raw.rs 26-36
RawDeserialize ==
    /\ raw_pc = "serialized"
    /\ raw_out' = FragmentRawDeserialize(raw_bytes)
    /\ raw_pc' = "deserialized"
    /\ UNCHANGED << raw_in, raw_bytes, blockVars, tagVars, cpVars, cpsVars, ledgerVars >>

RawNext ==
    \/ RawSerialize
    \/ RawDeserialize

-----------------------------------------------------------------------------
(* config.rs: Tag, the numbers of the configuration parameters *)

None == <<>>
Some(x) == << x >>

Ok(v) == [ok |-> TRUE, val |-> v]
Err(e) == [ok |-> FALSE, val |-> e]

\* enum Tag (config.rs 192-248), built without the "evm" feature
Tags ==
    { "Discrimination", "Block0Date", "ConsensusVersion", "SlotsPerEpoch",
      "SlotDuration", "EpochStabilityDepth", "ConsensusGenesisPraosActiveSlotsCoeff",
      "BlockContentMaxSize", "AddBftLeader", "RemoveBftLeader", "LinearFee",
      "ProposalExpiration", "KesUpdateSpeed", "TreasuryAdd", "TreasuryParams",
      "RewardPot", "RewardParams", "PerCertificateFees", "FeesInTreasury",
      "RewardLimitNone", "RewardLimitByAbsoluteStake",
      "PoolRewardParticipationCapping", "AddCommitteeId", "RemoveCommitteeId",
      "PerVoteCertificateFees", "TransactionMaxExpiryEpochs" }

\* `tag as u16`: the discriminants of enum Tag
TagAsU16(tag) ==
    CASE tag = "Discrimination" -> 1
      [] tag = "Block0Date" -> 2
      [] tag = "ConsensusVersion" -> 3
      [] tag = "SlotsPerEpoch" -> 4
      [] tag = "SlotDuration" -> 5
      [] tag = "EpochStabilityDepth" -> 6
      [] tag = "ConsensusGenesisPraosActiveSlotsCoeff" -> 8
      [] tag = "BlockContentMaxSize" -> 9
      [] tag = "AddBftLeader" -> 11
      [] tag = "RemoveBftLeader" -> 12
      [] tag = "LinearFee" -> 14
      [] tag = "ProposalExpiration" -> 15
      [] tag = "KesUpdateSpeed" -> 16
      [] tag = "TreasuryAdd" -> 17
      [] tag = "TreasuryParams" -> 18
      [] tag = "RewardPot" -> 19
      [] tag = "RewardParams" -> 20
      [] tag = "PerCertificateFees" -> 21
      [] tag = "FeesInTreasury" -> 22
      [] tag = "RewardLimitNone" -> 23
      [] tag = "RewardLimitByAbsoluteStake" -> 24
      [] tag = "PoolRewardParticipationCapping" -> 25
      [] tag = "AddCommitteeId" -> 26
      [] tag = "RemoveCommitteeId" -> 27
      [] tag = "PerVoteCertificateFees" -> 28
      [] tag = "TransactionMaxExpiryEpochs" -> 29
      [] tag = "EvmParams" -> 30

\* Tag::from_u16 with the arm for 8 written as 7
Tag_from_u16_shifted_arm(v) ==
    CASE v = 1 -> Some("Discrimination")
      [] v = 2 -> Some("Block0Date")
      [] v = 3 -> Some("ConsensusVersion")
      [] v = 4 -> Some("SlotsPerEpoch")
      [] v = 5 -> Some("SlotDuration")
      [] v = 6 -> Some("EpochStabilityDepth")
      [] v = 7 -> Some("ConsensusGenesisPraosActiveSlotsCoeff")
      [] v = 9 -> Some("BlockContentMaxSize")
      [] v = 11 -> Some("AddBftLeader")
      [] v = 12 -> Some("RemoveBftLeader")
      [] v = 14 -> Some("LinearFee")
      [] v = 15 -> Some("ProposalExpiration")
      [] v = 16 -> Some("KesUpdateSpeed")
      [] v = 17 -> Some("TreasuryAdd")
      [] v = 18 -> Some("TreasuryParams")
      [] v = 19 -> Some("RewardPot")
      [] v = 20 -> Some("RewardParams")
      [] v = 21 -> Some("PerCertificateFees")
      [] v = 22 -> Some("FeesInTreasury")
      [] v = 23 -> Some("RewardLimitNone")
      [] v = 24 -> Some("RewardLimitByAbsoluteStake")
      [] v = 25 -> Some("PoolRewardParticipationCapping")
      [] v = 26 -> Some("AddCommitteeId")
      [] v = 27 -> Some("RemoveCommitteeId")
      [] v = 28 -> Some("PerVoteCertificateFees")
      [] v = 29 -> Some("TransactionMaxExpiryEpochs")
      [] OTHER -> None

\* Tag::from_u16 (config.rs 251-283)
Tag_from_u16(v) ==
    CASE v = 1 -> Some("Discrimination")
      [] v = 2 -> Some("Block0Date")
      [] v = 3 -> Some("ConsensusVersion")
      [] v = 4 -> Some("SlotsPerEpoch")
      [] v = 5 -> Some("SlotDuration")
      [] v = 6 -> Some("EpochStabilityDepth")
      [] v = 8 -> Some("ConsensusGenesisPraosActiveSlotsCoeff")
      [] v = 9 -> Some("BlockContentMaxSize")
      [] v = 11 -> Some("AddBftLeader")
      [] v = 12 -> Some("RemoveBftLeader")
      [] v = 14 -> Some("LinearFee")
      [] v = 15 -> Some("ProposalExpiration")
      [] v = 16 -> Some("KesUpdateSpeed")
      [] v = 17 -> Some("TreasuryAdd")
      [] v = 18 -> Some("TreasuryParams")
      [] v = 19 -> Some("RewardPot")
      [] v = 20 -> Some("RewardParams")
      [] v = 21 -> Some("PerCertificateFees")
      [] v = 22 -> Some("FeesInTreasury")
      [] v = 23 -> Some("RewardLimitNone")
      [] v = 24 -> Some("RewardLimitByAbsoluteStake")
      [] v = 25 -> Some("PoolRewardParticipationCapping")
      [] v = 26 -> Some("AddCommitteeId")
      [] v = 27 -> Some("RemoveCommitteeId")
      [] v = 28 -> Some("PerVoteCertificateFees")
      [] v = 29 -> Some("TransactionMaxExpiryEpochs")
      [] OTHER -> None

-----------------------------------------------------------------------------
(* config.rs: TagLen(u16) = tag << 6 | len *)

U16 == 65536

RECURSIVE BitOr(_, _)
BitOr(a, b) ==
    IF a = 0 THEN b
    ELSE IF b = 0 THEN a
    ELSE (IF a % 2 = 1 \/ b % 2 = 1 THEN 1 ELSE 0) + 2 * BitOr(a \div 2, b \div 2)

RECURSIVE BitAnd(_, _)
BitAnd(a, b) ==
    IF a = 0 \/ b = 0 THEN 0
    ELSE (IF a % 2 = 1 /\ b % 2 = 1 THEN 1 ELSE 0) + 2 * BitAnd(a \div 2, b \div 2)

MAXIMUM_LEN == 64

\* TagLen::new with the bound included
TagLen_new_inclusive(tag, len) ==
    IF len <= MAXIMUM_LEN
    THEN Some(BitOr((TagAsU16(tag) * 64) % U16, len % U16))
    ELSE None

\* TagLen::new (config.rs 1039-1045)
TagLen_new(tag, len) ==
    IF len < MAXIMUM_LEN
    THEN Some(BitOr((TagAsU16(tag) * 64) % U16, len % U16))
    ELSE None

\* TagLen::get_len (config.rs 1047-1049)
TagLen_get_len(taglen) == BitAnd(taglen, 63)

\* TagLen::get_tag (config.rs 1051-1053)
TagLen_get_tag(taglen) ==
    LET tag == Tag_from_u16(taglen \div 64) IN
    IF tag = None THEN Err("InvalidTag") ELSE Ok(tag[1])

\* the lengths TagLen::new is called with
Lens == 0..(MAXIMUM_LEN + 6) \cup {127, 128, 129, 4096, 65535, 65536, 65600}

TagIdle ==
    /\ tl_in = [tag |-> "", len |-> 0, raw |-> 0]
    /\ tl_new = None
    /\ tl_tag = Err("")
    /\ tl_len = 0
    /\ tl_from = None
    /\ tl_pc = "idle"

TagInit ==
    /\ \/ \E t \in Tags, l \in Lens :
             /\ tl_in = [tag |-> t, len |-> l, raw |-> 0]
             /\ tl_pc = "new"
       \/ \E n \in 0..(U16 - 1) :
             /\ tl_in = [tag |-> "", len |-> 0, raw |-> n]
             /\ tl_pc = "raw"
    /\ tl_new = None
    /\ tl_tag = Err("")
    /\ tl_len = 0
    /\ tl_from = None

\* tag_len_computation_correct (config.rs 1065-1072) without the `% MAXIMUM_LEN`,
\* and the tag's number taken back through Tag::from_u16
TagLenNew ==
    /\ tl_pc = "new"
    /\ tl_new' = TagLen_new(tl_in.tag, tl_in.len)
    /\ tl_tag' = IF tl_new' = None THEN Err("") ELSE TagLen_get_tag(tl_new'[1])
    /\ tl_len' = IF tl_new' = None THEN 0 ELSE TagLen_get_len(tl_new'[1])
    /\ tl_from' = Tag_from_u16(TagAsU16(tl_in.tag))
    /\ tl_pc' = "done"
    /\ UNCHANGED << tl_in, blockVars, rawVars, cpVars, cpsVars, ledgerVars >>

\* TagLen(n) as ConfigParam::read builds it from two bytes (config.rs 325-327),
\* and Tag::from_u16 of the number itself
TagLenRaw ==
    /\ tl_pc = "raw"
    /\ tl_new' = Some(tl_in.raw)
    /\ tl_tag' = TagLen_get_tag(tl_in.raw)
    /\ tl_len' = TagLen_get_len(tl_in.raw)
    /\ tl_from' = Tag_from_u16(tl_in.raw)
    /\ tl_pc' = "done"
    /\ UNCHANGED << tl_in, blockVars, rawVars, cpVars, cpsVars, ledgerVars >>

TagNext ==
    \/ TagLenNew
    \/ TagLenRaw

-----------------------------------------------------------------------------
(* config.rs: the payload of each ConfigParam variant *)

\* ReadBuf: big-endian fields of the given widths read in order from a slice;
\* a field that does not fit is a ReadError
RECURSIVE ReadFields(_, _)
ReadFields(bytes, widths) ==
    IF widths = <<>> THEN [ok |-> TRUE, vals |-> <<>>, rest |-> bytes]
    ELSE IF Len(bytes) < Head(widths) THEN [ok |-> FALSE, vals |-> <<>>, rest |-> bytes]
    ELSE LET r == ReadFields(SubSeq(bytes, Head(widths) + 1, Len(bytes)), Tail(widths))
         IN  [ok |-> r.ok,
              vals |-> << FromBE(SubSeq(bytes, 1, Head(widths))) >> \o r.vals,
              rest |-> r.rest]

\* NonZeroU64::new / NonZeroU32::new
NonZero_new(x) == IF x = 0 THEN None ELSE Some(x)
\* Option::map(|v| v.get()).unwrap_or(0)
get_or_zero(opt) == IF opt = None THEN 0 ELSE opt[1]

\* impl ConfigParamVariant for u64 (config.rs 698-711)
u64_to_payload(n) == ToBE(n, 8)
u64_from_payload(payload) ==
    IF Len(payload) # 8 THEN Err("SizeInvalid") ELSE Ok(FromBE(payload))

\* impl ConfigParamVariant for u32 (config.rs 713-726)
u32_to_payload_le(n) == ToLE(n, 4)
u32_to_payload(n) == ToBE(n, 4)
u32_from_payload(payload) ==
    IF Len(payload) # 4 THEN Err("SizeInvalid") ELSE Ok(FromBE(payload))

\* impl ConfigParamVariant for u8 (config.rs 685-696)
u8_to_payload(n) == << n >>
u8_from_payload(payload) ==
    IF Len(payload) = 1 THEN Ok(payload[1]) ELSE Err("SizeInvalid")

\* impl ConfigParamVariant for bool (config.rs 668-683)
bool_to_payload(b) == << IF b THEN 1 ELSE 0 >>
bool_from_payload(payload) ==
    IF Len(payload) = 1
    THEN CASE payload[1] = 0 -> Ok(FALSE)
           [] payload[1] = 1 -> Ok(TRUE)
           [] OTHER -> Err("BoolInvalid")
    ELSE Err("SizeInvalid")

VAL_PROD == 1
VAL_TEST == 2

\* impl ConfigParamVariant for Discrimination (config.rs 620-638)
Discrimination_to_payload(d) ==
    CASE d = "Production" -> << VAL_PROD >>
      [] d = "Test" -> << VAL_TEST >>
Discrimination_from_payload(payload) ==
    IF Len(payload) # 1 THEN Err("SizeInvalid")
    ELSE CASE payload[1] = VAL_PROD -> Ok("Production")
           [] payload[1] = VAL_TEST -> Ok("Test")
           [] OTHER -> Err("StructureInvalid")

\* enum ConsensusType: `as u16` and ConsensusType::from_u16
ConsensusType_as_u16(c) ==
    CASE c = "Bft" -> 1
      [] c = "GenesisPraos" -> 2
ConsensusType_from_u16(n) ==
    CASE n = 1 -> Some("Bft")
      [] n = 2 -> Some("GenesisPraos")
      [] OTHER -> None

\* impl ConfigParamVariant for ConsensusType (config.rs 640-654)
ConsensusType_to_payload(c) == ToBE(ConsensusType_as_u16(c), 2)
ConsensusType_from_payload(payload) ==
    IF Len(payload) # 2 THEN Err("SizeInvalid")
    ELSE LET c == ConsensusType_from_u16(FromBE(payload)) IN
         IF c = None THEN Err("StructureInvalid") ELSE Ok(c[1])

\* the size of an Ed25519 public key and of a CommitteeId
KEY_SIZE == 32

\* impl ConfigParamVariant for BftLeaderId (config.rs 656-666)
BftLeaderId_to_payload(key) == key
BftLeaderId_from_payload(payload) ==
    IF Len(payload) = KEY_SIZE THEN Ok(payload) ELSE Err("SizeInvalid")

\* impl ConfigParamVariant for CommitteeId (config.rs 837-846)
CommitteeId_to_payload(id) == id
CommitteeId_from_payload(payload) ==
    IF Len(payload) = KEY_SIZE THEN Ok(payload) ELSE Err("UnknownString")

\* impl ConfigParamVariant for Ratio (config.rs 515-533)
Ratio_to_payload(r) == ToBE(r.numerator, 8) \o ToBE(r.denominator, 8)
Ratio_from_payload(payload) ==
    LET rb == ReadFields(payload, << 8, 8 >>) IN
    IF ~rb.ok THEN Err("StructureInvalid")
    ELSE IF rb.vals[2] = 0 THEN Err("StructureInvalid")
    ELSE IF rb.rest # <<>> THEN Err("StructureInvalid")
    ELSE Ok([numerator |-> rb.vals[1], denominator |-> rb.vals[2]])

\* impl ConfigParamVariant for TaxType (config.rs 502-513), over
\* TaxType::serialize_in and TaxType::read_frombuf
TaxType_to_payload(t) ==
    ToBE(t.fixed, 8) \o ToBE(t.ratio.numerator, 8) \o ToBE(t.ratio.denominator, 8)
        \o ToBE(get_or_zero(t.max_limit), 8)
TaxType_from_payload(payload) ==
    LET rb == ReadFields(payload, << 8, 8, 8, 8 >>) IN
    IF ~rb.ok THEN Err("StructureInvalid")
    ELSE IF rb.vals[3] = 0 THEN Err("StructureInvalid")
    ELSE IF rb.rest # <<>> THEN Err("StructureInvalid")
    ELSE Ok([fixed |-> rb.vals[1],
             ratio |-> [numerator |-> rb.vals[2], denominator |-> rb.vals[3]],
             max_limit |-> NonZero_new(rb.vals[4])])

\* impl ConfigParamVariant for RewardParams (config.rs 534-605)
RewardParams_to_payload(r) ==
    << IF r.kind = "Linear" THEN 1 ELSE 2 >>
        \o ToBE(r.constant, 8) \o ToBE(r.ratio.numerator, 8)
        \o ToBE(r.ratio.denominator, 8) \o ToBE(r.epoch_start, 4)
        \o ToBE(r.epoch_rate, 4)
RewardParams_from_payload(payload) ==
    IF Len(payload) < 1 THEN Err("StructureInvalid")
    ELSE IF payload[1] \notin {1, 2} THEN Err("InvalidTag")
    ELSE LET rb == ReadFields(Tail(payload), << 8, 8, 8, 4, 4 >>) IN
         IF ~rb.ok THEN Err("StructureInvalid")
         ELSE IF rb.vals[3] = 0 \/ rb.vals[5] = 0 THEN Err("StructureInvalid")
         ELSE IF rb.rest # <<>> THEN Err("StructureInvalid")
         ELSE Ok([kind |-> IF payload[1] = 1 THEN "Linear" ELSE "Halving",
                  constant |-> rb.vals[1],
                  ratio |-> [numerator |-> rb.vals[2], denominator |-> rb.vals[3]],
                  epoch_start |-> rb.vals[4],
                  epoch_rate |-> rb.vals[5]])

\* impl ConfigParamVariant for (NonZeroU32, NonZeroU32) (config.rs 728-740):
\* from_payload does not call expect_end
NonZeroPair_to_payload(p) == ToBE(p[1], 4) \o ToBE(p[2], 4)
NonZeroPair_from_payload(payload) ==
    LET rb == ReadFields(payload, << 4, 4 >>) IN
    IF ~rb.ok THEN Err("StructureInvalid")
    ELSE IF rb.vals[1] = 0 \/ rb.vals[2] = 0 THEN Err("StructureInvalid")
    ELSE Ok(<< rb.vals[1], rb.vals[2] >>)

\* PerCertificateFee::default() and PerVoteCertificateFee::default()
PerCertificateFee_default ==
    [certificate_pool_registration |-> None,
     certificate_stake_delegation |-> None,
     certificate_owner_stake_delegation |-> None]
PerVoteCertificateFee_default ==
    [certificate_vote_plan |-> None, certificate_vote_cast |-> None]

\* impl ConfigParamVariant for LinearFee (config.rs 752-772)
LinearFee_to_payload_swapped(fee) ==
    u64_to_payload(fee.constant) \o u64_to_payload(fee.certificate)
        \o u64_to_payload(fee.coefficient)
LinearFee_to_payload(fee) ==
    u64_to_payload(fee.constant) \o u64_to_payload(fee.coefficient)
        \o u64_to_payload(fee.certificate)
LinearFee_from_payload(payload) ==
    IF Len(payload) # 3 * 8 THEN Err("SizeInvalid")
    ELSE Ok([constant |-> u64_from_payload(SubSeq(payload, 1, 8)).val,
             coefficient |-> u64_from_payload(SubSeq(payload, 9, 16)).val,
             certificate |-> u64_from_payload(SubSeq(payload, 17, 24)).val,
             per_certificate_fees |-> PerCertificateFee_default,
             per_vote_certificate_fees |-> PerVoteCertificateFee_default])

\* impl ConfigParamVariant for PerCertificateFee (config.rs 774-808)
PerCertificateFee_to_payload(fee) ==
    u64_to_payload(get_or_zero(fee.certificate_pool_registration))
        \o u64_to_payload(get_or_zero(fee.certificate_stake_delegation))
        \o u64_to_payload(get_or_zero(fee.certificate_owner_stake_delegation))
PerCertificateFee_from_payload(payload) ==
    IF Len(payload) # 3 * 8 THEN Err("SizeInvalid")
    ELSE Ok([certificate_pool_registration |->
                 NonZero_new(u64_from_payload(SubSeq(payload, 1, 8)).val),
             certificate_stake_delegation |->
                 NonZero_new(u64_from_payload(SubSeq(payload, 9, 16)).val),
             certificate_owner_stake_delegation |->
                 NonZero_new(u64_from_payload(SubSeq(payload, 17, 24)).val)])

\* impl ConfigParamVariant for PerVoteCertificateFee (config.rs 810-835)
PerVoteCertificateFee_to_payload(fee) ==
    u64_to_payload(get_or_zero(fee.certificate_vote_plan))
        \o u64_to_payload(get_or_zero(fee.certificate_vote_cast))
PerVoteCertificateFee_from_payload(payload) ==
    IF Len(payload) # 2 * 8 THEN Err("SizeInvalid")
    ELSE Ok([certificate_vote_plan |->
                 NonZero_new(u64_from_payload(SubSeq(payload, 1, 8)).val),
             certificate_vote_cast |->
                 NonZero_new(u64_from_payload(SubSeq(payload, 9, 16)).val)])

\* impl ConfigParamVariant for EvmConfigParams (feature "evm", config.rs
\* 848-913): the length of the payload written. Of an EvmConfigParams the
\* model keeps what decides that length: whether create_contract_limit is set
\* and the number of block hashes.
EvmConfigParams_payload_len(evm) ==
    15 * 8 + 6 + 3 * 8
        + (IF evm.create_contract_limit = None THEN 1 ELSE 1 + 8)
        + 8 + 9
        + 32 + 20 + 32
        + 8 + 32 * evm.block_hashes
        + 32 + 20 + 32 + 32 + 32

\* ... and the payload, its bytes left at 0
EvmConfigParams_to_payload(evm) ==
    [i \in 1..EvmConfigParams_payload_len(evm) |-> 0]

-----------------------------------------------------------------------------
(* config.rs: ConfigParam, a record [tag |-> variant, data |-> its field] *)

\* impl From<&ConfigParam> for Tag (config.rs 286-321)
Tag_from_ConfigParam(p) ==
    CASE p.tag = "Block0Date" -> "Block0Date"
      [] p.tag = "Discrimination" -> "Discrimination"
      [] p.tag = "ConsensusVersion" -> "ConsensusVersion"
      [] p.tag = "SlotsPerEpoch" -> "SlotsPerEpoch"
      [] p.tag = "SlotDuration" -> "SlotDuration"
      [] p.tag = "EpochStabilityDepth" -> "EpochStabilityDepth"
      [] p.tag = "ConsensusGenesisPraosActiveSlotsCoeff" ->
             "ConsensusGenesisPraosActiveSlotsCoeff"
      [] p.tag = "BlockContentMaxSize" -> "BlockContentMaxSize"
      [] p.tag = "AddBftLeader" -> "AddBftLeader"
      [] p.tag = "RemoveBftLeader" -> "RemoveBftLeader"
      [] p.tag = "LinearFee" -> "LinearFee"
      [] p.tag = "ProposalExpiration" -> "ProposalExpiration"
      [] p.tag = "KesUpdateSpeed" -> "KesUpdateSpeed"
      [] p.tag = "TreasuryAdd" -> "TreasuryAdd"
      [] p.tag = "TreasuryParams" -> "TreasuryParams"
      [] p.tag = "RewardPot" -> "RewardPot"
      [] p.tag = "RewardParams" -> "RewardParams"
      [] p.tag = "PerCertificateFees" -> "PerCertificateFees"
      [] p.tag = "FeesInTreasury" -> "FeesInTreasury"
      [] p.tag = "RewardLimitNone" -> "RewardLimitNone"
      [] p.tag = "RewardLimitByAbsoluteStake" -> "RewardLimitByAbsoluteStake"
      [] p.tag = "PoolRewardParticipationCapping" -> "PoolRewardParticipationCapping"
      [] p.tag = "AddCommitteeId" -> "AddCommitteeId"
      [] p.tag = "RemoveCommitteeId" -> "RemoveCommitteeId"
      [] p.tag = "PerVoteCertificateFees" -> "PerVoteCertificateFees"
      [] p.tag = "TransactionMaxExpiryEpochs" -> "TransactionMaxExpiryEpochs"
      [] p.tag = "EvmParams" -> "EvmParams"

\* the match of ConfigParam::serialize (config.rs 414-443)
ConfigParam_to_payload(p) ==
    CASE p.tag \in {"Block0Date", "ConsensusGenesisPraosActiveSlotsCoeff",
                    "TreasuryAdd", "RewardPot"} -> u64_to_payload(p.data)
      [] p.tag \in {"SlotsPerEpoch", "EpochStabilityDepth", "BlockContentMaxSize",
                    "ProposalExpiration", "KesUpdateSpeed"} -> u32_to_payload(p.data)
      [] p.tag \in {"SlotDuration", "TransactionMaxExpiryEpochs"} -> u8_to_payload(p.data)
      [] p.tag = "Discrimination" -> Discrimination_to_payload(p.data)
      [] p.tag = "ConsensusVersion" -> ConsensusType_to_payload(p.data)
      [] p.tag \in {"AddBftLeader", "RemoveBftLeader"} -> BftLeaderId_to_payload(p.data)
      [] p.tag = "LinearFee" -> LinearFee_to_payload(p.data)
      [] p.tag = "TreasuryParams" -> TaxType_to_payload(p.data)
      [] p.tag = "RewardParams" -> RewardParams_to_payload(p.data)
      [] p.tag = "PerCertificateFees" -> PerCertificateFee_to_payload(p.data)
      [] p.tag = "FeesInTreasury" -> bool_to_payload(p.data)
      [] p.tag = "RewardLimitNone" -> <<>>
      [] p.tag = "RewardLimitByAbsoluteStake" -> Ratio_to_payload(p.data)
      [] p.tag = "PoolRewardParticipationCapping" -> NonZeroPair_to_payload(p.data)
      [] p.tag \in {"AddCommitteeId", "RemoveCommitteeId"} -> CommitteeId_to_payload(p.data)
      [] p.tag = "PerVoteCertificateFees" -> PerVoteCertificateFee_to_payload(p.data)
      [] p.tag = "EvmParams" -> EvmConfigParams_to_payload(p.data)

\* the match of ConfigParam::read (config.rs 327-404)
ConfigParam_from_payload(tag, bytes) ==
    CASE tag \in {"Block0Date", "ConsensusGenesisPraosActiveSlotsCoeff",
                  "TreasuryAdd", "RewardPot"} -> u64_from_payload(bytes)
      [] tag \in {"SlotsPerEpoch", "EpochStabilityDepth", "BlockContentMaxSize",
                  "ProposalExpiration", "KesUpdateSpeed"} -> u32_from_payload(bytes)
      [] tag \in {"SlotDuration", "TransactionMaxExpiryEpochs"} -> u8_from_payload(bytes)
      [] tag = "Discrimination" -> Discrimination_from_payload(bytes)
      [] tag = "ConsensusVersion" -> ConsensusType_from_payload(bytes)
      [] tag \in {"AddBftLeader", "RemoveBftLeader"} -> BftLeaderId_from_payload(bytes)
      [] tag = "LinearFee" -> LinearFee_from_payload(bytes)
      [] tag = "TreasuryParams" -> TaxType_from_payload(bytes)
      [] tag = "RewardParams" -> RewardParams_from_payload(bytes)
      [] tag = "PerCertificateFees" -> PerCertificateFee_from_payload(bytes)
      [] tag = "FeesInTreasury" -> bool_from_payload(bytes)
      [] tag = "RewardLimitNone" ->
             IF bytes # <<>> THEN Err("SizeInvalid") ELSE Ok(<<>>)
      [] tag = "RewardLimitByAbsoluteStake" -> Ratio_from_payload(bytes)
      [] tag = "PoolRewardParticipationCapping" -> NonZeroPair_from_payload(bytes)
      [] tag \in {"AddCommitteeId", "RemoveCommitteeId"} -> CommitteeId_from_payload(bytes)
      [] tag = "PerVoteCertificateFees" -> PerVoteCertificateFee_from_payload(bytes)

\* Codec::put_u16 / get_u16 bytes
put_u16_le(v) == ToLE(v, 2)
put_u16(v) == ToBE(v, 2)

\* ConfigParam::serialize writing the TagLen without TagLen::new's test
ConfigParamSerialize_unchecked(p) ==
    LET tag == Tag_from_ConfigParam(p)
        bytes == ConfigParam_to_payload(p)
    IN  [ok |-> TRUE,
         bytes |-> ToBE(BitOr((TagAsU16(tag) * 64) % U16, Len(bytes) % U16), 2) \o bytes]

\* impl Serialize for ConfigParam (config.rs 409-454): the bytes written, or
\* an error with nothing written
ConfigParamSerialize(p) ==
    LET tag == Tag_from_ConfigParam(p)
        bytes == ConfigParam_to_payload(p)
        taglen == TagLen_new(tag, Len(bytes))
    IN  IF taglen = None
        THEN [ok |-> FALSE, bytes |-> <<>>]
        ELSE [ok |-> TRUE, bytes |-> put_u16(taglen[1]) \o bytes]

NoParam == [tag |-> "", data |-> <<>>]

\* impl Readable for ConfigParam (config.rs 323-407): the parameter read and
\* the bytes left in the buffer, or the error
ConfigParamRead(buf) ==
    IF Len(buf) < 2
    THEN [ok |-> FALSE, val |-> NoParam, err |-> "NotEnoughBytes", rest |-> buf]
    ELSE LET taglen == FromBE(SubSeq(buf, 1, 2))
             after == SubSeq(buf, 3, Len(buf))
             len == TagLen_get_len(taglen)
         IN  IF Len(after) < len
             THEN [ok |-> FALSE, val |-> NoParam, err |-> "NotEnoughBytes", rest |-> after]
             ELSE LET bytes == SubSeq(after, 1, len)
                      rest == SubSeq(after, len + 1, Len(after))
                      tag == TagLen_get_tag(taglen)
                  IN  IF ~tag.ok
                      THEN [ok |-> FALSE, val |-> NoParam, err |-> tag.val, rest |-> rest]
                      ELSE LET v == ConfigParam_from_payload(tag.val, bytes) IN
                           IF v.ok
                           THEN [ok |-> TRUE, val |-> [tag |-> tag.val, data |-> v.val],
                                 err |-> "", rest |-> rest]
                           ELSE [ok |-> FALSE, val |-> NoParam, err |-> v.val, rest |-> rest]

\* impl Deserialize for ConfigParam (config.rs 456-481): the TagLen and the
\* payload are read from the stream, copied to a buffer, and read from it
ConfigParamDeserialize(r) ==
    IF Len(r) < 2
    THEN [ok |-> FALSE, val |-> NoParam, err |-> "io", rest |-> r]
    ELSE LET tag_len == FromBE(SubSeq(r, 1, 2))
             after == SubSeq(r, 3, Len(r))
             len == TagLen_get_len(tag_len)
         IN  IF Len(after) < len
             THEN [ok |-> FALSE, val |-> NoParam, err |-> "io", rest |-> after]
             ELSE LET cursor == put_u16(tag_len) \o SubSeq(after, 1, len)
                      res == ConfigParamRead(cursor)
                  IN  [ok |-> res.ok, val |-> res.val, err |-> res.err,
                       rest |-> SubSeq(after, len + 1, Len(after))]

\* derived PartialEq of ConfigParam: same variant, equal field
ConfigParamEq(a, b) == a.tag = b.tag /\ a.data = b.data

-----------------------------------------------------------------------------
(* ConfigParam values tried *)

U8s == {0, 1, 255}
U32s == {0, 1, 43200, 16909060}
U64s == {0, 1, 258, 2147483647}
Keys == { [i \in 1..KEY_SIZE |-> 0], [i \in 1..KEY_SIZE |-> i], [i \in 1..KEY_SIZE |-> 255] }
OptNonZero == { None, Some(1), Some(258) }
Ratios == { [numerator |-> n, denominator |-> d] : n \in {0, 258}, d \in {1, 2147483647} }

PerCertificateFees ==
    [certificate_pool_registration : OptNonZero,
     certificate_stake_delegation : OptNonZero,
     certificate_owner_stake_delegation : OptNonZero]
PerVoteCertificateFees ==
    [certificate_vote_plan : OptNonZero, certificate_vote_cast : OptNonZero]

LinearFees ==
    [constant : {0, 258}, coefficient : {1, 2147483647}, certificate : {0, 3},
     per_certificate_fees :
        { PerCertificateFee_default,
          [certificate_pool_registration |-> Some(1),
           certificate_stake_delegation |-> None,
           certificate_owner_stake_delegation |-> Some(258)] },
     per_vote_certificate_fees :
        { PerVoteCertificateFee_default,
          [certificate_vote_plan |-> Some(258), certificate_vote_cast |-> None] }]

TaxTypes == [fixed : {0, 258}, ratio : Ratios, max_limit : OptNonZero]

RewardParamsValues ==
    [kind : {"Linear", "Halving"}, constant : {0, 258}, ratio : Ratios,
     epoch_start : {0, 43200}, epoch_rate : {1, 20}]

NonZeroPairs == { << x, y >> : x \in {1, 43200}, y \in {1, 16909060} }

\* cp is a ConfigParam of the sets above, one disjunct for each type of field
IsSampleParam(cp) ==
    \/ \E t \in {"Block0Date", "ConsensusGenesisPraosActiveSlotsCoeff",
                 "TreasuryAdd", "RewardPot"}, d \in U64s : cp = [tag |-> t, data |-> d]
    \/ \E t \in {"SlotsPerEpoch", "EpochStabilityDepth", "BlockContentMaxSize",
                 "ProposalExpiration", "KesUpdateSpeed"}, d \in U32s :
          cp = [tag |-> t, data |-> d]
    \/ \E t \in {"SlotDuration", "TransactionMaxExpiryEpochs"}, d \in U8s :
          cp = [tag |-> t, data |-> d]
    \/ \E d \in {"Production", "Test"} : cp = [tag |-> "Discrimination", data |-> d]
    \/ \E d \in {"Bft", "GenesisPraos"} : cp = [tag |-> "ConsensusVersion", data |-> d]
    \/ \E t \in {"AddBftLeader", "RemoveBftLeader", "AddCommitteeId", "RemoveCommitteeId"},
          d \in Keys : cp = [tag |-> t, data |-> d]
    \/ \E d \in LinearFees : cp = [tag |-> "LinearFee", data |-> d]
    \/ \E d \in TaxTypes : cp = [tag |-> "TreasuryParams", data |-> d]
    \/ \E d \in RewardParamsValues : cp = [tag |-> "RewardParams", data |-> d]
    \/ \E d \in PerCertificateFees : cp = [tag |-> "PerCertificateFees", data |-> d]
    \/ \E d \in PerVoteCertificateFees : cp = [tag |-> "PerVoteCertificateFees", data |-> d]
    \/ \E d \in BOOLEAN : cp = [tag |-> "FeesInTreasury", data |-> d]
    \/ cp = [tag |-> "RewardLimitNone", data |-> <<>>]
    \/ \E d \in Ratios : cp = [tag |-> "RewardLimitByAbsoluteStake", data |-> d]
    \/ \E d \in NonZeroPairs : cp = [tag |-> "PoolRewardParticipationCapping", data |-> d]

NoBytes == [ok |-> FALSE, bytes |-> <<>>]
NoRead == [ok |-> FALSE, val |-> NoParam, err |-> "", rest |-> <<>>]

ConfigIdle ==
    /\ cp_in = NoParam
    /\ cp_payload = <<>>
    /\ cp_variant = Err("")
    /\ cp_bytes = NoBytes
    /\ cp_out = NoRead
    /\ cp_pc = "idle"

ConfigInit ==
    /\ IsSampleParam(cp_in)
    /\ cp_payload = <<>>
    /\ cp_variant = Err("")
    /\ cp_bytes = NoBytes
    /\ cp_out = NoRead
    /\ cp_pc = "start"

\* linear_fee_to_payload_from_payload and per_certificate_fee_to_payload_from_payload
\* (config.rs 1074-1086), for the field of any variant: to_payload
VariantToPayload ==
    /\ cp_pc = "start"
    /\ cp_payload' = ConfigParam_to_payload(cp_in)
    /\ cp_pc' = "payload"
    /\ UNCHANGED << cp_in, cp_variant, cp_bytes, cp_out, cpsVars, blockVars, rawVars, tagVars, ledgerVars >>

\* ... and from_payload of what to_payload returned
VariantFromPayload ==
    /\ cp_pc = "payload"
    /\ cp_variant' = ConfigParam_from_payload(cp_in.tag, cp_payload)
    /\ cp_pc' = "from_payload"
    /\ UNCHANGED << cp_in, cp_payload, cp_bytes, cp_out, cpsVars, blockVars, rawVars, tagVars, ledgerVars >>

\* param.serialize_as_vec() (config.rs 1090, 1099)
ParamSerialize ==
    /\ cp_pc = "start"
    /\ cp_bytes' = ConfigParamSerialize(cp_in)
    /\ cp_pc' = "serialized"
    /\ UNCHANGED << cp_in, cp_payload, cp_variant, cp_out, cpsVars, blockVars, rawVars, tagVars, ledgerVars >>

\* ConfigParam::read of the bytes written (config.rs 1100-1101)
ParamRead ==
    /\ cp_pc = "serialized"
    /\ cp_bytes.ok
    /\ cp_out' = ConfigParamRead(cp_bytes.bytes)
    /\ cp_pc' = "read"
    /\ UNCHANGED << cp_in, cp_payload, cp_variant, cp_bytes, cpsVars, blockVars, rawVars, tagVars, ledgerVars >>

\* ConfigParam::deserialize of the bytes written (config.rs 1091-1092)
ParamDeserialize ==
    /\ cp_pc = "serialized"
    /\ cp_bytes.ok
    /\ cp_out' = ConfigParamDeserialize(cp_bytes.bytes)
    /\ cp_pc' = "deserialized"
    /\ UNCHANGED << cp_in, cp_payload, cp_variant, cp_bytes, cpsVars, blockVars, rawVars, tagVars, ledgerVars >>

ConfigNext ==
    \/ VariantToPayload
    \/ VariantFromPayload
    \/ ParamSerialize
    \/ ParamRead
    \/ ParamDeserialize

-----------------------------------------------------------------------------
(* ConfigParam::serialize in a build with the evm feature *)

IsEvmParam(cp) ==
    \E limit \in {None, Some(24576)}, n \in 0..MaxBlockHashes :
        cp = [tag |-> "EvmParams",
              data |-> [create_contract_limit |-> limit, block_hashes |-> n]]

EncodeInit ==
    /\ IsSampleParam(cp_in) \/ IsEvmParam(cp_in)
    /\ cp_payload = <<>>
    /\ cp_variant = Err("")
    /\ cp_bytes = NoBytes
    /\ cp_out = NoRead
    /\ cp_pc = "start"

EncodeNext == ParamSerialize

-----------------------------------------------------------------------------
(* ConfigParam::read of a payload that is not of its variant's size *)

TrailingBytes == {0, 7}

\* the payload cut by n bytes at its end
CutPayload(payload, n) == SubSeq(payload, 1, Len(payload) - n)

\* a buffer is built by hand: the TagLen of the variant's tag and of the
\* length of a payload that is the variant's own with some bytes cut from
\* its end or some bytes added after it
ParamResize ==
    /\ cp_pc = "start"
    /\ LET payload == ConfigParam_to_payload(cp_in) IN
       \E resized \in
             { CutPayload(payload, n) : n \in 1..MaxResize }
                 \cup { payload \o extra :
                           extra \in UNION { [1..n -> TrailingBytes] : n \in 1..MaxResize } } :
          /\ Len(resized) # Len(payload)
          /\ Len(resized) < MAXIMUM_LEN
          /\ cp_payload' = resized
          /\ cp_bytes' = [ok |-> TRUE,
                          bytes |-> put_u16(TagLen_new(Tag_from_ConfigParam(cp_in),
                                                       Len(resized))[1]) \o resized]
    /\ cp_pc' = "resized"
    /\ UNCHANGED << cp_in, cp_variant, cp_out, cpsVars, blockVars, rawVars, tagVars, ledgerVars >>

\* ConfigParam::read of that buffer
ResizedRead ==
    /\ cp_pc = "resized"
    /\ cp_out' = ConfigParamRead(cp_bytes.bytes)
    /\ cp_pc' = "read_resized"
    /\ UNCHANGED << cp_in, cp_payload, cp_variant, cp_bytes, cpsVars, blockVars, rawVars, tagVars, ledgerVars >>

ResizeNext ==
    \/ ParamResize
    \/ ResizedRead

-----------------------------------------------------------------------------
(* fragment/config.rs: ConfigParams, a list of ConfigParam *)

RECURSIVE SerializeEach(_)
\* the loop of ConfigParams::serialize (fragment/config.rs 29-31): the
\* entries' encodings in order, or the first error
SerializeEach(params) ==
    IF params = <<>> THEN [ok |-> TRUE, bytes |-> <<>>]
    ELSE LET first == ConfigParamSerialize(Head(params))
             others == SerializeEach(Tail(params))
         IN  IF first.ok /\ others.ok
             THEN [ok |-> TRUE, bytes |-> first.bytes \o others.bytes]
             ELSE [ok |-> FALSE, bytes |-> <<>>]

\* impl Serialize for ConfigParams (fragment/config.rs 22-34)
ConfigParamsSerialize(params) ==
    LET each == SerializeEach(params) IN
    IF each.ok
    THEN [ok |-> TRUE, bytes |-> put_u16(Len(params) % U16) \o each.bytes]
    ELSE [ok |-> FALSE, bytes |-> <<>>]

RECURSIVE ReadEach(_, _)
\* the loop of ConfigParams::read (fragment/config.rs 41-43): n entries are
\* read one after the other, the first error ends it
ReadEach(buf, n) ==
    IF n = 0 THEN [ok |-> TRUE, val |-> <<>>, rest |-> buf]
    ELSE LET first == ConfigParamRead(buf) IN
         IF ~first.ok THEN [ok |-> FALSE, val |-> <<>>, rest |-> first.rest]
         ELSE LET others == ReadEach(first.rest, n - 1) IN
              [ok |-> others.ok,
               val |-> IF others.ok THEN << first.val >> \o others.val ELSE <<>>,
               rest |-> others.rest]

\* impl Readable for ConfigParams (fragment/config.rs 36-46)
ConfigParamsRead_count_first_byte(buf) ==
    IF Len(buf) < 2 THEN [ok |-> FALSE, val |-> <<>>, rest |-> buf]
    ELSE ReadEach(SubSeq(buf, 3, Len(buf)), buf[1])
ConfigParamsRead(buf) ==
    IF Len(buf) < 2 THEN [ok |-> FALSE, val |-> <<>>, rest |-> buf]
    ELSE ReadEach(SubSeq(buf, 3, Len(buf)), FromBE(SubSeq(buf, 1, 2)))

\* the entries the lists are made of
ListSamples ==
    << [tag |-> "RewardLimitNone", data |-> <<>>],
       [tag |-> "SlotsPerEpoch", data |-> 43200],
       [tag |-> "FeesInTreasury", data |-> TRUE],
       [tag |-> "LinearFee",
        data |-> [constant |-> 258, coefficient |-> 1, certificate |-> 3,
                  per_certificate_fees |-> PerCertificateFee_default,
                  per_vote_certificate_fees |-> PerVoteCertificateFee_default]],
       [tag |-> "LinearFee",
        data |-> [constant |-> 258, coefficient |-> 1, certificate |-> 3,
                  per_certificate_fees |->
                      [certificate_pool_registration |-> Some(1),
                       certificate_stake_delegation |-> None,
                       certificate_owner_stake_delegation |-> None],
                  per_vote_certificate_fees |-> PerVoteCertificateFee_default]],
       [tag |-> "AddBftLeader", data |-> [i \in 1..KEY_SIZE |-> i]] >>

NoList == [ok |-> FALSE, val |-> <<>>, rest |-> <<>>]

ParamsIdle ==
    /\ cps_in = <<>>
    /\ cps_bytes = NoBytes
    /\ cps_out = NoList
    /\ cps_pc = "idle"

ParamsInit ==
    /\ \E n \in 0..MaxParams : \E idx \in [1..n -> DOMAIN ListSamples] :
          cps_in = [i \in 1..n |-> ListSamples[idx[i]]]
    /\ cps_bytes = NoBytes
    /\ cps_out = NoList
    /\ cps_pc = "start"

\* params.serialize_as_vec() (fragment/config.rs 55)
ParamsSerialize ==
    /\ cps_pc = "start"
    /\ cps_bytes' = ConfigParamsSerialize(cps_in)
    /\ cps_pc' = "serialized"
    /\ UNCHANGED << cps_in, cps_out, cpVars, blockVars, rawVars, tagVars, ledgerVars >>

\* ConfigParams::read of the bytes written (fragment/config.rs 56-57)
ParamsRead ==
    /\ cps_pc = "serialized"
    /\ cps_bytes.ok
    /\ cps_out' = ConfigParamsRead(cps_bytes.bytes)
    /\ cps_pc' = "read"
    /\ UNCHANGED << cps_in, cps_bytes, cpVars, blockVars, rawVars, tagVars, ledgerVars >>

ParamsNext ==
    \/ ParamsSerialize
    \/ ParamsRead

-----------------------------------------------------------------------------
(* stake/stake.rs: PercentStake. The stakes and values tried are below 2^31
   and written as integers; the u128 intermediates of scale_value are
   little-endian sequences of base-1000 digits. *)

RECURSIVE DecMul(_, _, _)
\* the digits of a * k + carry, for an integer k
DecMul(a, k, carry) ==
    IF a = << >>
    THEN IF carry = 0 THEN << >>
         ELSE << carry % 1000 >> \o DecMul(<< >>, k, carry \div 1000)
    ELSE LET t == Head(a) * k + carry
         IN  << t % 1000 >> \o DecMul(Tail(a), k, t \div 1000)

RECURSIVE DecDiv(_, _, _)
\* the digits of floor((rem * 1000^Len(a) + a) / k), for an integer k > 0
DecDiv(a, k, rem) ==
    IF a = << >> THEN << >>
    ELSE LET cur == rem * 1000 + a[Len(a)]
         IN  DecDiv(SubSeq(a, 1, Len(a) - 1), k, cur % k) \o << cur \div k >>

RECURSIVE DecToInt(_)
DecToInt(a) == IF a = << >> THEN 0 ELSE Head(a) + 1000 * DecToInt(Tail(a))

\* const SCALE: u128 = 1_000_000_000_000_000_000 (10^18 = 1000^6)
SCALE == << 0, 0, 0, 0, 0, 0, 1 >>
\* a * SCALE and floor(a / SCALE)
DecMulScale(a) == SubSeq(SCALE, 1, Len(SCALE) - 1) \o a
DecDivScale(a) == SubSeq(a, Len(SCALE), Len(a))

Panic == [panic |-> TRUE, val |-> 0]
Returns(v) == [panic |-> FALSE, val |-> v]

\* PercentStake::new (stake.rs 92-95): assert!(stake <= total)
PercentStake_new(stake, total) ==
    IF stake <= total
    THEN Returns([stake |-> stake, total |-> total])
    ELSE Panic

\* PercentStake::scale_value (stake.rs 101-112); the division by a total of 0
\* panics
PercentStake_scale_value_swapped(self, v) ==
    IF self.stake = 0 THEN Panic
    ELSE LET scaled_divided == DecDiv(DecMulScale(DecMul(<< 1 >>, v, 0)), self.stake, 0)
             r == DecDivScale(DecMul(scaled_divided, self.total, 0))
         IN  Returns(DecToInt(r))
PercentStake_scale_value(self, v) ==
    IF self.total = 0 THEN Panic
    ELSE LET scaled_divided == DecDiv(DecMulScale(DecMul(<< 1 >>, v, 0)), self.total, 0)
             r == DecDivScale(DecMul(scaled_divided, self.stake, 0))
         IN  Returns(DecToInt(r))

RECURSIVE DecTrim(_)
\* a without its leading (highest) zero digits
DecTrim(a) ==
    IF a = << >> THEN << >>
    ELSE IF a[Len(a)] = 0 THEN DecTrim(SubSeq(a, 1, Len(a) - 1))
    ELSE a

RECURSIVE DecLessTrimmed(_, _)
DecLessTrimmed(a, b) ==
    IF Len(a) # Len(b) THEN Len(a) < Len(b)
    ELSE IF a = << >> THEN FALSE
    ELSE IF a[Len(a)] # b[Len(b)] THEN a[Len(a)] < b[Len(b)]
    ELSE DecLessTrimmed(SubSeq(a, 1, Len(a) - 1), SubSeq(b, 1, Len(b) - 1))

\* a < b and a <= b, for digit sequences
DecLess(a, b) == DecLessTrimmed(DecTrim(a), DecTrim(b))
DecLeq(a, b) == ~DecLess(b, a)

\* 2^64 - 1 = 18 446 744 073 709 551 615 and
\* 2^128 = 340 282 366 920 938 463 463 374 607 431 768 211 456
DecU64Max == << 615, 551, 709, 73, 744, 446, 18 >>
DecTwo128 == << 456, 211, 768, 431, 607, 374, 463, 463, 938, 920, 366, 282, 340 >>

\* PercentStake::scale_value (stake.rs 101-112) multiplying by the stake
\* before dividing by the total
PercentStake_scale_value_wide_late_division(self, v) ==
    IF self.total = 0 THEN [panic |-> TRUE, scaled |-> << >>, product |-> << >>, val |-> << >>]
    ELSE LET scaled == DecMulScale(v)
             product == DecMul(scaled, self.stake, 0)
             r == DecDivScale(DecDiv(product, self.total, 0))
         IN  [panic |-> FALSE, scaled |-> scaled, product |-> product, val |-> r]

\* PercentStake::scale_value (stake.rs 101-112) on a Value of any size, written
\* in digits: the two u128 products, computed over the integers so that
\* they can be compared with 2^128, and r before it is narrowed to the u64
PercentStake_scale_value_wide(self, v) ==
    IF self.total = 0 THEN [panic |-> TRUE, scaled |-> << >>, product |-> << >>, val |-> << >>]
    ELSE LET scaled == DecMulScale(v)
             scaled_divided == DecDiv(scaled, self.total, 0)
             product == DecMul(scaled_divided, self.stake, 0)
             r == DecDivScale(product)
         IN  [panic |-> FALSE, scaled |-> scaled, product |-> product, val |-> r]

Values == 0..MaxValue \cup {1000}
SmallStakes == 0..MaxStake \cup {999}

NoPercent == [stake |-> 0, total |-> 0]

PercentIdle ==
    /\ ps_args = << 0, 0, 0 >>
    /\ ps_self = NoPercent
    /\ ps_out = Returns(0)
    /\ ps_pc = "idle"

\* the arguments: stake, total and the value scaled
PercentInit ==
    /\ ps_args \in SmallStakes \X SmallStakes \X Values
    /\ ps_self = NoPercent
    /\ ps_out = Returns(0)
    /\ ps_pc = "start"

PercentStakeNew ==
    /\ ps_pc = "start"
    /\ LET res == PercentStake_new(ps_args[1], ps_args[2]) IN
       IF res.panic
       THEN /\ ps_pc' = "panicked"
            /\ ps_out' = Panic
            /\ UNCHANGED ps_self
       ELSE /\ ps_pc' = "built"
            /\ ps_self' = res.val
            /\ UNCHANGED ps_out
    /\ UNCHANGED << ps_args, stakeVars, potsVars, codecVars, moreVars >>

ScaleValue ==
    /\ ps_pc = "built"
    /\ ps_out' = PercentStake_scale_value(ps_self, ps_args[3])
    /\ ps_pc' = "scaled"
    /\ UNCHANGED << ps_args, ps_self, stakeVars, potsVars, codecVars, moreVars >>

PercentNext ==
    \/ PercentStakeNew
    \/ ScaleValue

\* stakes and values up to the largest u64 the digits of scale_value are tried on
WideStakes == 0..MaxStake \cup {999, 2000000}
WideValues ==
    { << 0 >>, << 1 >>, << 7 >>, << 296, 967, 294, 4 >>, SCALE,
      << 614, 551, 709, 73, 744, 446, 18 >>, DecU64Max }

PercentWideInit ==
    /\ ps_args \in WideStakes \X WideStakes \X WideValues
    /\ ps_self = NoPercent
    /\ ps_out = Returns(0)
    /\ ps_pc = "start"

ScaleValueWide ==
    /\ ps_pc = "built"
    /\ ps_out' = PercentStake_scale_value_wide(ps_self, ps_args[3])
    /\ ps_pc' = "scaled"
    /\ UNCHANGED << ps_args, ps_self, stakeVars, potsVars, codecVars, moreVars >>

PercentWideNext ==
    \/ PercentStakeNew
    \/ ScaleValueWide

-----------------------------------------------------------------------------
(* stake/stake.rs: Stake, a u64 written as four 16-bit limbs, the lowest
   first *)

U64Zero == << 0, 0, 0, 0 >>
U64Max == << 65535, 65535, 65535, 65535 >>

\* a + b: the low 64 bits and the carry out of them
U64Add(a, b) ==
    LET s1 == a[1] + b[1]
        s2 == a[2] + b[2] + s1 \div 65536
        s3 == a[3] + b[3] + s2 \div 65536
        s4 == a[4] + b[4] + s3 \div 65536
    IN  [val |-> << s1 % 65536, s2 % 65536, s3 % 65536, s4 % 65536 >>,
         carry |-> s4 \div 65536]

\* a * k for an integer k: the low 64 bits and what is carried out of them
U64MulSmall(a, k) ==
    LET p1 == a[1] * k
        p2 == a[2] * k + p1 \div 65536
        p3 == a[3] * k + p2 \div 65536
        p4 == a[4] * k + p3 \div 65536
    IN  [val |-> << p1 % 65536, p2 % 65536, p3 % 65536, p4 % 65536 >>,
         carry |-> p4 \div 65536]

\* a / k and a % k for an integer k > 0
U64DivSmall(a, k) ==
    LET c4 == a[4]
        c3 == (c4 % k) * 65536 + a[3]
        c2 == (c3 % k) * 65536 + a[2]
        c1 == (c2 % k) * 65536 + a[1]
    IN  [quot |-> << c1 \div k, c2 \div k, c3 \div k, c4 \div k >>,
         rem |-> << c1 % k, 0, 0, 0 >>]

StakePanic == [panic |-> TRUE, val |-> U64Zero]

\* impl Add for Stake (stake.rs 115-121), Stake(self.0 + other.0): an
\* overflowing `+` panics in a build with overflow checks and wraps in a
\* build without them
Stake_add(a, b, checks) ==
    LET s == U64Add(a, b) IN
    IF s.carry # 0 /\ checks THEN StakePanic ELSE Returns(s.val)

\* impl AddAssign for Stake (stake.rs 123-127)
Stake_add_assign(a, b, checks) ==
    LET s == U64Add(a, b) IN
    IF s.carry # 0 /\ checks THEN StakePanic ELSE Returns(s.val)

RECURSIVE StakeFold(_, _, _)
StakeFold(acc, values, checks) ==
    IF values = << >> THEN Returns(acc)
    ELSE LET next == Stake_add(acc, Head(values), checks) IN
         IF next.panic THEN StakePanic ELSE StakeFold(next.val, Tail(values), checks)

\* Stake::sum (stake.rs 35-40): values.fold(Stake(0), |acc, v| acc + v)
Stake_sum(values, checks) == StakeFold(U64Zero, values, checks)

\* Stake::split_in (stake.rs 62-69), for n > 0
Stake_split_in_no_remainder(s, n) ==
    [parts |-> U64DivSmall(s, n).quot, remaining |-> U64Zero]
Stake_split_in(s, n) ==
    [parts |-> U64DivSmall(s, n).quot, remaining |-> U64DivSmall(s, n).rem]

\* StakeUnit::scale (stake.rs 84-89): checked_mul(n as u64).unwrap()
StakeUnit_scale(unit, n) ==
    LET p == U64MulSmall(unit, n) IN
    IF p.carry # 0 THEN StakePanic ELSE Returns(p.val)

StakeSamples ==
    { U64Zero, << 1, 0, 0, 0 >>, << 7, 0, 0, 0 >>, << 0, 0, 0, 32768 >>,
      << 65534, 65535, 65535, 65535 >>, U64Max }
Parts == {0, 1, 2, 3, 7, 1000}

NoSplit == [parts |-> U64Zero, remaining |-> U64Zero]
NoStake == Returns(U64Zero)

StakeIdle ==
    /\ st_vals = << >>
    /\ st_n = 0
    /\ overflow_checks = FALSE
    /\ st_split = NoSplit
    /\ st_out = NoStake
    /\ st_pc = "idle"

StakeInit ==
    /\ \E len \in 1..MaxStakes : st_vals \in [1..len -> StakeSamples]
    /\ st_n \in Parts
    /\ overflow_checks \in BOOLEAN
    /\ st_split = NoSplit
    /\ st_out = NoStake
    /\ st_pc = "start"

\* s.split_in(n) for the first stake; n = 0 is a division by zero
StakeSplitIn ==
    /\ st_pc = "start"
    /\ IF st_n = 0
       THEN /\ st_pc' = "panicked"
            /\ st_out' = StakePanic
            /\ UNCHANGED st_split
       ELSE /\ st_pc' = "split"
            /\ st_split' = Stake_split_in(st_vals[1], st_n)
            /\ UNCHANGED st_out
    /\ UNCHANGED << st_vals, st_n, overflow_checks, percentVars, potsVars, codecVars, moreVars >>

\* parts.scale(n) + remaining
StakeRecombine ==
    /\ st_pc = "split"
    /\ LET scaled == StakeUnit_scale(st_split.parts, st_n) IN
       st_out' = IF scaled.panic
                 THEN StakePanic
                 ELSE Stake_add(scaled.val, st_split.remaining, overflow_checks)
    /\ st_pc' = "recombined"
    /\ UNCHANGED << st_vals, st_n, overflow_checks, st_split, percentVars, potsVars, codecVars, moreVars >>

\* a + b for the first two stakes
StakeAdd ==
    /\ st_pc = "start"
    /\ Len(st_vals) >= 2
    /\ st_out' = Stake_add(st_vals[1], st_vals[2], overflow_checks)
    /\ st_pc' = "added"
    /\ UNCHANGED << st_vals, st_n, overflow_checks, st_split, percentVars, potsVars, codecVars, moreVars >>

\* a += b for the first two stakes
StakeAddAssign ==
    /\ st_pc = "start"
    /\ Len(st_vals) >= 2
    /\ st_out' = Stake_add_assign(st_vals[1], st_vals[2], overflow_checks)
    /\ st_pc' = "add_assigned"
    /\ UNCHANGED << st_vals, st_n, overflow_checks, st_split, percentVars, potsVars, codecVars, moreVars >>

\* Stake::sum over all the stakes
StakeSum ==
    /\ st_pc = "start"
    /\ st_out' = Stake_sum(st_vals, overflow_checks)
    /\ st_pc' = "summed"
    /\ UNCHANGED << st_vals, st_n, overflow_checks, st_split, percentVars, potsVars, codecVars, moreVars >>

StakeNext ==
    \/ StakeSplitIn
    \/ StakeRecombine
    \/ StakeAdd
    \/ StakeAddAssign
    \/ StakeSum

-----------------------------------------------------------------------------
(* ledger/pots.rs: Pots, three Value pools; a Value is a u64 *)

\* a < b
U64Less(a, b) ==
    \E i \in 1..4 : a[i] < b[i] /\ \A j \in (i + 1)..4 : a[j] = b[j]

\* a - b: the low 64 bits and the borrow out of them
U64Sub(a, b) ==
    LET d1 == a[1] - b[1]
        d2 == a[2] - b[2] - (IF d1 < 0 THEN 1 ELSE 0)
        d3 == a[3] - b[3] - (IF d2 < 0 THEN 1 ELSE 0)
        d4 == a[4] - b[4] - (IF d3 < 0 THEN 1 ELSE 0)
    IN  [val |-> << (d1 + 65536) % 65536, (d2 + 65536) % 65536,
                    (d3 + 65536) % 65536, (d4 + 65536) % 65536 >>,
         borrow |-> IF d4 < 0 THEN 1 ELSE 0]

\* cmp::min of two Value
Value_min(a, b) == IF U64Less(b, a) THEN b ELSE a

\* impl Sub for Value: checked_sub, an error when the result would be negative
Value_sub(a, b) ==
    LET d == U64Sub(a, b) IN
    IF d.borrow # 0 THEN Err("NegativeAmount") ELSE Ok(d.val)

\* Pots::draw_reward (pots.rs 127-133) taking expected_reward whatever is there
Pots_draw_reward_uncapped(self, expected_reward) ==
    LET to_draw == expected_reward
        left == Value_sub(self.rewards, to_draw)
    IN  IF ~left.ok
        THEN [panic |-> TRUE, pots |-> self, ret |-> U64Zero]
        ELSE [panic |-> FALSE, pots |-> [self EXCEPT !.rewards = left.val], ret |-> to_draw]

\* Pots::draw_reward (pots.rs 127-133): the pots after the call and the value
\* returned; unwrap() of a failed subtraction panics
Pots_draw_reward(self, expected_reward) ==
    LET to_draw == Value_min(self.rewards, expected_reward)
        left == Value_sub(self.rewards, to_draw)
    IN  IF ~left.ok
        THEN [panic |-> TRUE, pots |-> self, ret |-> U64Zero]
        ELSE [panic |-> FALSE, pots |-> [self EXCEPT !.rewards = left.val], ret |-> to_draw]

\* Pots::siphon_fees (pots.rs 141-147) leaving the fees in place
Pots_siphon_fees_keep(self) ==
    [panic |-> FALSE, pots |-> self, ret |-> self.fees]

\* Pots::siphon_fees (pots.rs 141-147)
Pots_siphon_fees(self) ==
    [panic |-> FALSE, pots |-> [self EXCEPT !.fees = U64Zero], ret |-> self.fees]

\* impl Add for Value and Value::checked_add: an error when the sum does
\* not fit in the u64
Value_add(a, b) ==
    LET s == U64Add(a, b) IN
    IF s.carry # 0 THEN Err("Overflow") ELSE Ok(s.val)

\* Pots::append_fees (pots.rs 121-125) storing the low 64 bits of the sum
Pots_append_fees_wrapping(self, fees) ==
    [err |-> "", pots |-> [self EXCEPT !.fees = U64Add(self.fees, fees).val]]

\* Pots::append_fees (pots.rs 121-125): the pots after the call and the
\* error returned, "" for Ok(())
Pots_append_fees(self, fees) ==
    LET sum == Value_add(self.fees, fees) IN
    IF ~sum.ok
    THEN [err |-> "PotValueInvalid", pots |-> self]
    ELSE [err |-> "", pots |-> [self EXCEPT !.fees = sum.val]]

\* Pots::rewards_add (pots.rs 155-161) keeping the largest u64 when the sum
\* does not fit
Pots_rewards_add_saturating(self, value) ==
    LET sum == Value_add(self.rewards, value) IN
    IF ~sum.ok
    THEN [err |-> "", pots |-> [self EXCEPT !.rewards = U64Max]]
    ELSE [err |-> "", pots |-> [self EXCEPT !.rewards = sum.val]]

\* Pots::rewards_add (pots.rs 155-161) adding to the fees
Pots_rewards_add_to_fees(self, value) ==
    LET sum == Value_add(self.fees, value) IN
    IF ~sum.ok
    THEN [err |-> "PotValueInvalid", pots |-> self]
    ELSE [err |-> "", pots |-> [self EXCEPT !.fees = sum.val]]

\* Pots::rewards_add (pots.rs 155-161)
Pots_rewards_add(self, value) ==
    LET sum == Value_add(self.rewards, value) IN
    IF ~sum.ok
    THEN [err |-> "PotValueInvalid", pots |-> self]
    ELSE [err |-> "", pots |-> [self EXCEPT !.rewards = sum.val]]

\* Entries::next (pots.rs 66-85) starting over once done
Entries_next_restarting(self, it) ==
    CASE it = "Fees" ->
            [it |-> "Treasury", item |-> Some([type |-> "Fees", value |-> self.fees])]
      [] it = "Treasury" ->
            [it |-> "Rewards", item |-> Some([type |-> "Treasury", value |-> self.treasury])]
      [] it = "Rewards" ->
            [it |-> "Done", item |-> Some([type |-> "Rewards", value |-> self.rewards])]
      [] it = "Done" ->
            [it |-> "Treasury", item |-> Some([type |-> "Fees", value |-> self.fees])]

\* Entries::next (pots.rs 66-85): the iterator's state after the call and
\* the item returned
Entries_next(self, it) ==
    CASE it = "Fees" ->
            [it |-> "Treasury", item |-> Some([type |-> "Fees", value |-> self.fees])]
      [] it = "Treasury" ->
            [it |-> "Rewards", item |-> Some([type |-> "Treasury", value |-> self.treasury])]
      [] it = "Rewards" ->
            [it |-> "Done", item |-> Some([type |-> "Rewards", value |-> self.rewards])]
      [] it = "Done" -> [it |-> "Done", item |-> None]

\* Pots::entries (pots.rs 105-110): the IterState of a new iterator
Pots_entries(self) == "Fees"

PotValues ==
    { U64Zero, << 1, 0, 0, 0 >>, << 5, 0, 0, 0 >>, << 0, 0, 1, 0 >>, U64Max }

\* the record of a call: its name, argument, result, and the pots before it
NoCall(before) ==
    [op |-> "none", arg |-> U64Zero, ret |-> U64Zero, panic |-> FALSE, err |-> "",
     before |-> before]

ZeroPots == [fees |-> U64Zero, treasury |-> U64Zero, rewards |-> U64Zero]

PotsIdle ==
    /\ pots = ZeroPots
    /\ pots_last = NoCall(ZeroPots)
    /\ pots_prev = NoCall(ZeroPots)
    /\ pots_ops = 0

\* an arbitrary Pots (pots.rs 190-198)
PotsInit ==
    /\ pots \in [fees : PotValues, treasury : PotValues, rewards : PotValues]
    /\ pots_last = NoCall(pots)
    /\ pots_prev = NoCall(pots)
    /\ pots_ops = 0

CanCall == pots_ops < MaxOps /\ ~pots_last.panic

\* let to_draw = pots.draw_reward(expected_reward)
DrawReward ==
    /\ CanCall
    /\ \E expected_reward \in PotValues :
          LET res == Pots_draw_reward(pots, expected_reward) IN
          /\ pots' = res.pots
          /\ pots_last' = [op |-> "draw_reward", arg |-> expected_reward,
                           ret |-> res.ret, panic |-> res.panic, err |-> "",
                           before |-> pots]
    /\ pots_prev' = pots_last
    /\ pots_ops' = pots_ops + 1
    /\ UNCHANGED << percentVars, stakeVars, codecVars, moreVars >>

\* let siphoned = pots.siphon_fees()
SiphonFees ==
    /\ CanCall
    /\ LET res == Pots_siphon_fees(pots) IN
       /\ pots' = res.pots
       /\ pots_last' = [op |-> "siphon_fees", arg |-> U64Zero,
                        ret |-> res.ret, panic |-> res.panic, err |-> "",
                        before |-> pots]
    /\ pots_prev' = pots_last
    /\ pots_ops' = pots_ops + 1
    /\ UNCHANGED << percentVars, stakeVars, codecVars, moreVars >>

\* pots.append_fees(value)
AppendFees ==
    /\ CanCall
    /\ \E value \in PotValues :
          LET res == Pots_append_fees(pots, value) IN
          /\ pots' = res.pots
          /\ pots_last' = [op |-> "append_fees", arg |-> value, ret |-> U64Zero,
                           panic |-> FALSE, err |-> res.err, before |-> pots]
    /\ pots_prev' = pots_last
    /\ pots_ops' = pots_ops + 1
    /\ UNCHANGED << percentVars, stakeVars, codecVars, moreVars >>

\* pots.rewards_add(value)
RewardsAdd ==
    /\ CanCall
    /\ \E value \in PotValues :
          LET res == Pots_rewards_add(pots, value) IN
          /\ pots' = res.pots
          /\ pots_last' = [op |-> "rewards_add", arg |-> value, ret |-> U64Zero,
                           panic |-> FALSE, err |-> res.err, before |-> pots]
    /\ pots_prev' = pots_last
    /\ pots_ops' = pots_ops + 1
    /\ UNCHANGED << percentVars, stakeVars, codecVars, moreVars >>

PotsNext ==
    \/ DrawReward
    \/ SiphonFees
    \/ AppendFees
    \/ RewardsAdd

-----------------------------------------------------------------------------
(* ledger/pots.rs: Entries, the iterator over a Pots it borrows *)

EntriesIdle ==
    /\ it_state = "none"
    /\ it_out = << >>
    /\ it_made = 0

\* let it = pots.entries()
PotsEntries ==
    /\ it_made < MaxIters
    /\ it_state' = Pots_entries(pots)
    /\ it_out' = << >>
    /\ it_made' = it_made + 1
    /\ UNCHANGED << percentVars, stakeVars, potsVars, recVars, codecVars >>

\* it.next()
EntriesNext ==
    /\ it_state # "none"
    /\ Len(it_out) < MaxNext
    /\ LET res == Entries_next(pots, it_state) IN
       /\ it_state' = res.it
       /\ it_out' = Append(it_out, res.item)
    /\ UNCHANGED << it_made, percentVars, stakeVars, potsVars, recVars, codecVars >>

IterNext ==
    \/ PotsEntries
    \/ EntriesNext

-----------------------------------------------------------------------------
(* ledger/recovery.rs: the ledger written as a stream of tagged entries *)

\* enum EntrySerializeCode (recovery.rs 739-752)
EntryKinds ==
    { "Globals", "Pot", "Utxo", "OldUtxo", "Account", "ConfigParam", "UpdateProposal",
      "MultisigAccount", "MultisigDeclaration", "StakePool", "LeaderParticipation" }

\* `code as u8` with the discriminants counted from 1
EntrySerializeCode_as_u8_from_one(code) ==
    CASE code = "Globals" -> 1
      [] code = "Pot" -> 2
      [] code = "Utxo" -> 3
      [] code = "OldUtxo" -> 4
      [] code = "Account" -> 5
      [] code = "ConfigParam" -> 6
      [] code = "UpdateProposal" -> 7
      [] code = "MultisigAccount" -> 8
      [] code = "MultisigDeclaration" -> 9
      [] code = "StakePool" -> 10
      [] code = "LeaderParticipation" -> 11
      [] code = "SerializationEnd" -> 12

\* `code as u8`: the discriminants of enum EntrySerializeCode
EntrySerializeCode_as_u8(code) ==
    CASE code = "Globals" -> 0
      [] code = "Pot" -> 1
      [] code = "Utxo" -> 2
      [] code = "OldUtxo" -> 3
      [] code = "Account" -> 4
      [] code = "ConfigParam" -> 5
      [] code = "UpdateProposal" -> 6
      [] code = "MultisigAccount" -> 7
      [] code = "MultisigDeclaration" -> 8
      [] code = "StakePool" -> 9
      [] code = "LeaderParticipation" -> 10
      [] code = "SerializationEnd" -> 11

\* EntrySerializeCode::from_u8 with the arms of 2 and 3 exchanged
EntrySerializeCode_from_u8_swapped(n) ==
    CASE n = 0 -> Some("Globals")
      [] n = 1 -> Some("Pot")
      [] n = 2 -> Some("OldUtxo")
      [] n = 3 -> Some("Utxo")
      [] n = 4 -> Some("Account")
      [] n = 5 -> Some("ConfigParam")
      [] n = 6 -> Some("UpdateProposal")
      [] n = 7 -> Some("MultisigAccount")
      [] n = 8 -> Some("MultisigDeclaration")
      [] n = 9 -> Some("StakePool")
      [] n = 10 -> Some("LeaderParticipation")
      [] n = 11 -> Some("SerializationEnd")
      [] OTHER -> None

\* EntrySerializeCode::from_u8 (recovery.rs 755-771)
EntrySerializeCode_from_u8(n) ==
    CASE n = 0 -> Some("Globals")
      [] n = 1 -> Some("Pot")
      [] n = 2 -> Some("Utxo")
      [] n = 3 -> Some("OldUtxo")
      [] n = 4 -> Some("Account")
      [] n = 5 -> Some("ConfigParam")
      [] n = 6 -> Some("UpdateProposal")
      [] n = 7 -> Some("MultisigAccount")
      [] n = 8 -> Some("MultisigDeclaration")
      [] n = 9 -> Some("StakePool")
      [] n = 10 -> Some("LeaderParticipation")
      [] n = 11 -> Some("SerializationEnd")
      [] OTHER -> None

\* Codec::put_u64: to_be_bytes of a u64 given by its four 16-bit limbs
put_u64(v) == ToBE(v[4], 2) \o ToBE(v[3], 2) \o ToBE(v[2], 2) \o ToBE(v[1], 2)

\* Codec::get_u64 reading the 8 bytes as a little-endian integer
get_u64_le(r) ==
    IF Len(r) < 8
    THEN [ok |-> FALSE, val |-> U64Zero, rest |-> r]
    ELSE [ok |-> TRUE,
          val |-> << FromBE(<< r[2], r[1] >>), FromBE(<< r[4], r[3] >>),
                     FromBE(<< r[6], r[5] >>), FromBE(<< r[8], r[7] >>) >>,
          rest |-> SubSeq(r, 9, Len(r))]

\* Codec::get_u64: read_exact of 8 bytes, then u64::from_be_bytes
get_u64(r) ==
    IF Len(r) < 8
    THEN [ok |-> FALSE, val |-> U64Zero, rest |-> r]
    ELSE [ok |-> TRUE,
          val |-> << FromBE(SubSeq(r, 7, 8)), FromBE(SubSeq(r, 5, 6)),
                     FromBE(SubSeq(r, 3, 4)), FromBE(SubSeq(r, 1, 2)) >>,
          rest |-> SubSeq(r, 9, Len(r))]

\* Codec::get_u8: read_exact of one byte
get_u8(r) ==
    IF Len(r) < 1
    THEN [ok |-> FALSE, val |-> 0, rest |-> r]
    ELSE [ok |-> TRUE, val |-> r[1], rest |-> Tail(r)]

NoPot == [type |-> "None", value |-> U64Zero]
NoEntry == [kind |-> "None", pot |-> NoPot, body |-> << >>]
StopEntry == [kind |-> "StopEntry", pot |-> NoPot, body |-> << >>]

\* pack_pot_entry (recovery.rs 520-539)
pack_pot_entry(entry) ==
    CASE entry.type = "Fees" -> << 0 >> \o put_u64(entry.value)
      [] entry.type = "Treasury" -> << 1 >> \o put_u64(entry.value)
      [] entry.type = "Rewards" -> << 2 >> \o put_u64(entry.value)

\* unpack_pot_entry (recovery.rs 541-553)
unpack_pot_entry(r) ==
    LET code == get_u8(r)
        value == get_u64(code.rest)
        type == CASE code.val = 0 -> "Fees"
                  [] code.val = 1 -> "Treasury"
                  [] code.val = 2 -> "Rewards"
                  [] OTHER -> "None"
    IN  IF ~code.ok
        THEN [ok |-> FALSE, err |-> "UnexpectedEof", entry |-> NoPot, rest |-> code.rest]
        ELSE IF type = "None"
        THEN [ok |-> FALSE, err |-> "InvalidData", entry |-> NoPot, rest |-> code.rest]
        ELSE IF ~value.ok
        THEN [ok |-> FALSE, err |-> "UnexpectedEof", entry |-> NoPot, rest |-> value.rest]
        ELSE [ok |-> TRUE, err |-> "", entry |-> [type |-> type, value |-> value.val],
              rest |-> value.rest]

\* the entry-specific bytes of an entry other than a pot entry: what the
\* packers of its kind write
pack_body(entry) == entry.body

\* the decoders of an entry kind other than Pot: they read back the bytes the
\* packers of the kind wrote
unpack_body(kind, r) ==
    IF Len(r) < BodyLen
    THEN [ok |-> FALSE, err |-> "UnexpectedEof", entry |-> NoEntry, rest |-> r]
    ELSE [ok |-> TRUE, err |-> "",
          entry |-> [kind |-> kind, pot |-> NoPot, body |-> SubSeq(r, 1, BodyLen)],
          rest |-> SubSeq(r, BodyLen + 1, Len(r))]

\* pack_entry (recovery.rs 774-831): the code of the entry's kind, then the
\* entry-specific bytes
pack_entry(entry) ==
    << EntrySerializeCode_as_u8(entry.kind) >>
        \o (IF entry.kind = "Pot" THEN pack_pot_entry(entry.pot) ELSE pack_body(entry))

\* unpack_entry_owned (recovery.rs 833-883); decoder is the entry kind whose
\* decoder was called, "None" when none was
unpack_entry_owned(r) ==
    LET code_u8 == get_u8(r)
        code == EntrySerializeCode_from_u8(code_u8.val)
    IN  IF ~code_u8.ok
        THEN [ok |-> FALSE, err |-> "UnexpectedEof", decoder |-> "None",
              entry |-> NoEntry, rest |-> code_u8.rest]
        ELSE IF code = None
        THEN [ok |-> FALSE, err |-> "InvalidData", decoder |-> "None",
              entry |-> NoEntry, rest |-> code_u8.rest]
        ELSE IF code[1] = "SerializationEnd"
        THEN [ok |-> TRUE, err |-> "", decoder |-> "None",
              entry |-> StopEntry, rest |-> code_u8.rest]
        ELSE IF code[1] = "Pot"
        THEN LET pot == unpack_pot_entry(code_u8.rest) IN
             [ok |-> pot.ok, err |-> pot.err, decoder |-> "Pot",
              entry |-> IF pot.ok THEN [kind |-> "Pot", pot |-> pot.entry, body |-> << >>]
                        ELSE NoEntry,
              rest |-> pot.rest]
        ELSE LET body == unpack_body(code[1], code_u8.rest) IN
             [ok |-> body.ok, err |-> body.err, decoder |-> code[1],
              entry |-> body.entry, rest |-> body.rest]

\* the values of the pot entries packed
RecValues == PotValues \cup { << 1800, 1286, 772, 258 >> }
PotEntries == [type : { "Fees", "Treasury", "Rewards" }, value : RecValues]

BodyBytes == { 0, 11 }
OtherEntries ==
    [kind : EntryKinds \ { "Pot" }, pot : { NoPot }, body : [1..BodyLen -> BodyBytes]]
Entries == OtherEntries \cup [kind : { "Pot" }, pot : PotEntries, body : { << >> }]

\* the entries of the ledgers serialized: one of each kind, a pot entry of each type
LedgerEntries ==
    { e \in OtherEntries : \A i \in 1..BodyLen : e.body[i] = 11 }
        \cup [kind : { "Pot" }, pot : [type : { "Fees", "Treasury", "Rewards" },
                                     value : { << 11, 0, 0, 2816 >> }],
              body : { << >> }]
Ledgers == UNION { [1..n -> LedgerEntries] : n \in 0..MaxEntries }

\* the bytes given to unpack_entry_owned: any code byte, then nothing, the
\* bytes of some entry, or a pot entry of an unknown type
CodeBytes == 0..13 \cup { 255 }
EntryBytes ==
    { << >> } \cup { Tail(pack_entry(e)) : e \in Entries } \cup { << 3 >> \o put_u64(U64Max) }
UnpackInputs == { << >> } \cup { << c >> \o b : c \in CodeBytes, b \in EntryBytes }

\* the bytes given to unpack_pot_entry that pack_pot_entry did not write
PotCodeBytes == { 0, 1, 2, 3, 11, 255 }
RawPotInputs == { << c >> \o put_u64(v) : c \in PotCodeBytes, v \in { U64Zero, U64Max } }

NoUnpacked == [ok |-> FALSE, err |-> "", decoder |-> "None", entry |-> NoEntry, rest |-> << >>]
NoPotUnpacked == [ok |-> FALSE, err |-> "", entry |-> NoPot, rest |-> << >>]

\* a ledger to serialize, a pot entry to pack and unpack, bytes to unpack as
\* a pot entry, or bytes to unpack as an entry
RecoveryInit ==
    /\ rec_pos = 0
    /\ \/ /\ rec_pc = "serialize"
          /\ rec_in \in Ledgers
          /\ rec_bytes = << >>
          /\ rec_out = NoUnpacked
       \/ /\ rec_pc = "pot"
          /\ rec_in \in PotEntries
          /\ rec_bytes = << >>
          /\ rec_out = NoPotUnpacked
       \/ /\ rec_pc = "packed"
          /\ rec_in = NoPot
          /\ rec_bytes \in RawPotInputs
          /\ rec_out = NoPotUnpacked
       \/ /\ rec_pc = "unpack"
          /\ rec_in = << >>
          /\ rec_bytes \in UnpackInputs
          /\ rec_out = NoUnpacked

\* recovery.rs 890-892: one turn of `for entry in self.iter()`
LedgerSerializeEntry ==
    /\ rec_pc = "serialize"
    /\ rec_pos < Len(rec_in)
    /\ rec_bytes' = rec_bytes \o pack_entry(rec_in[rec_pos + 1])
    /\ rec_pos' = rec_pos + 1
    /\ UNCHANGED << rec_in, rec_out, rec_pc, itVars, percentVars, stakeVars, potsVars, codecVars >>

\* recovery.rs 893-895: the finish flag
LedgerSerializeEnd ==
    /\ rec_pc = "serialize"
    /\ rec_pos = Len(rec_in)
    /\ rec_bytes' = rec_bytes \o << EntrySerializeCode_as_u8("SerializationEnd") >>
    /\ rec_pc' = "serialized"
    /\ UNCHANGED << rec_in, rec_pos, rec_out, itVars, percentVars, stakeVars, potsVars, codecVars >>

\* pack_pot_entry(entry_value, &codec)
PackPotEntry ==
    /\ rec_pc = "pot"
    /\ rec_bytes' = pack_pot_entry(rec_in)
    /\ rec_pc' = "packed"
    /\ UNCHANGED << rec_in, rec_pos, rec_out, itVars, percentVars, stakeVars, potsVars, codecVars >>

\* unpack_pot_entry(&mut codec)
UnpackPotEntry ==
    /\ rec_pc = "packed"
    /\ rec_out' = unpack_pot_entry(rec_bytes)
    /\ rec_pc' = "pot unpacked"
    /\ UNCHANGED << rec_in, rec_pos, rec_bytes, itVars, percentVars, stakeVars, potsVars, codecVars >>

\* unpack_entry_owned(&mut codec)
UnpackEntryOwned ==
    /\ rec_pc = "unpack"
    /\ rec_out' = unpack_entry_owned(rec_bytes)
    /\ rec_pc' = "unpacked"
    /\ UNCHANGED << rec_in, rec_pos, rec_bytes, itVars, percentVars, stakeVars, potsVars, codecVars >>

RecoveryNext ==
    \/ LedgerSerializeEntry
    \/ LedgerSerializeEnd
    \/ PackPotEntry
    \/ UnpackPotEntry
    \/ UnpackEntryOwned

RecoveryIdle ==
    /\ rec_in = << >>
    /\ rec_pos = 0
    /\ rec_bytes = << >>
    /\ rec_out = [ok |-> FALSE]
    /\ rec_pc = "idle"

LedgerIdle == PercentIdle /\ StakeIdle /\ PotsIdle /\ EntriesIdle /\ RecoveryIdle

-----------------------------------------------------------------------------
(* Specifications *)

InitBlock == BlockInit /\ RawIdle /\ TagIdle /\ ConfigIdle /\ ParamsIdle /\ LedgerIdle
SpecBlock == InitBlock /\ [][BlockNext]_vars

\* Block::deserialize is one sequential call: the header is decoded and
\* the fragment loop keeps running for as long as it has an iteration to make.
\* The loop never reads the header's content hash, left at 0 here.
InitBlockFair == InitBlock /\ blk_in.content_hash = 0
SpecBlockFair ==
    /\ InitBlockFair
    /\ [][BlockNext]_vars
    /\ WF_vars(BlockDeserializeHeader)
    /\ WF_vars(BlockReadFragment)

InitFragmentRaw == RawInit /\ BlockIdle /\ TagIdle /\ ConfigIdle /\ ParamsIdle /\ LedgerIdle
SpecFragmentRaw == InitFragmentRaw /\ [][RawNext]_vars

InitTag == TagInit /\ BlockIdle /\ RawIdle /\ ConfigIdle /\ ParamsIdle /\ LedgerIdle
SpecTag == InitTag /\ [][TagNext]_vars

InitConfig == ConfigInit /\ BlockIdle /\ RawIdle /\ TagIdle /\ ParamsIdle /\ LedgerIdle
SpecConfig == InitConfig /\ [][ConfigNext]_vars

InitParams == ParamsInit /\ BlockIdle /\ RawIdle /\ TagIdle /\ ConfigIdle /\ LedgerIdle
SpecParams == InitParams /\ [][ParamsNext]_vars

InitEncode == EncodeInit /\ BlockIdle /\ RawIdle /\ TagIdle /\ ParamsIdle /\ LedgerIdle
SpecEncode == InitEncode /\ [][EncodeNext]_vars

SpecResize == InitConfig /\ [][ResizeNext]_vars

CodecIdle == BlockIdle /\ RawIdle /\ TagIdle /\ ConfigIdle /\ ParamsIdle

InitPercent == PercentInit /\ StakeIdle /\ PotsIdle /\ EntriesIdle /\ RecoveryIdle /\ CodecIdle
SpecPercent == InitPercent /\ [][PercentNext]_vars

InitPercentWide == PercentWideInit /\ StakeIdle /\ PotsIdle /\ EntriesIdle /\ RecoveryIdle /\ CodecIdle
SpecPercentWide == InitPercentWide /\ [][PercentWideNext]_vars

InitStake == StakeInit /\ PercentIdle /\ PotsIdle /\ EntriesIdle /\ RecoveryIdle /\ CodecIdle
SpecStake == InitStake /\ [][StakeNext]_vars

InitPots == PotsInit /\ PercentIdle /\ StakeIdle /\ EntriesIdle /\ RecoveryIdle /\ CodecIdle
SpecPots == InitPots /\ [][PotsNext]_vars

SpecEntries == InitPots /\ [][IterNext]_vars

InitRecovery == RecoveryInit /\ EntriesIdle /\ PercentIdle /\ StakeIdle /\ PotsIdle /\ CodecIdle
SpecRecovery == InitRecovery /\ [][RecoveryNext]_vars

-----------------------------------------------------------------------------
(* Properties of Block::deserialize *)

BlockDone == blk_pc = "done"

\* the fragment loop ran to its end: no error left it early
LoopCompleted == BlockDone /\ blk_in.hdr_ok /\ remaining_content_size = 0

RECURSIVE FramedSizeSum(_)
\* the sum over the fragments of 4 + payload length
FramedSizeSum(frags) ==
    IF frags = <<>> THEN 0
    ELSE 4 + Len(Head(frags)) + FramedSizeSum(Tail(frags))

\* the bytes the framed fragments of the input occupy
Occupied == FramedSizeSum(blk_in.frags)

\* the declared size ends exactly after some whole number of the input's fragments
OnFragmentBoundary(sz) ==
    \E k \in 0..Len(blk_in.frags) : FramedSizeSum(SubSeq(blk_in.frags, 1, k)) = sz

\* C1: once the fragments have been consumed within the declared content size,
\* a recomputed content hash that differs from the header's makes
\* Block::deserialize fail with InvalidData.
C1_HashMismatchIsInvalidData ==
    (LoopCompleted /\ HashBytes(SerializeContents(contents)) # header.content_hash)
        => blk_result = "InvalidData"

C1_Witness ==
    /\ LoopCompleted
    /\ Len(contents) = 2
    /\ HashBytes(SerializeContents(contents)) # header.content_hash
    /\ blk_result = "InvalidData"

\* C2: whenever Block::deserialize returns Ok, the framed sizes (4 + payload
\* length) of the block's fragments add up to the header's content size and
\* the hash over the contents equals the header's content hash.
C2_OkBlockMatchesHeader ==
    blk_result = "Ok" =>
        /\ FramedSizeSum(contents) = header.content_size
        /\ HashBytes(SerializeContents(contents)) = header.content_hash

C2_Witness ==
    /\ blk_result = "Ok"
    /\ Len(contents) = 2
    /\ header.content_size = FramedSizeSum(contents)

\* C3 as stated: every input whose header declares a content size other than
\* the bytes its framed fragments occupy fails with StructureInvalid.
C3_AnySizeMismatchIsStructureInvalid ==
    (BlockDone /\ blk_in.hdr_ok /\ blk_in.content_size # Occupied)
        => blk_result = "StructureInvalid"

\* C3 amended: a declared size that ends strictly inside a framed fragment
\* fails with StructureInvalid; a declared size larger than the fragments
\* occupy fails on the short read with an I/O error (unless a fragment was
\* rejected before); a smaller declared size that ends on a fragment boundary
\* leaves the loop normally and the content-hash check decides the result.
C3_SizeMismatchOutcome ==
    (BlockDone /\ blk_in.hdr_ok /\ blk_in.content_size # Occupied) =>
        /\ (blk_in.content_size < Occupied /\ ~OnFragmentBoundary(blk_in.content_size))
              => blk_result = "StructureInvalid"
        /\ blk_in.content_size > Occupied
              => \/ blk_result = "IoError"
                 \/ blk_result = "StructureInvalid" /\ blk_msg = "from_raw"
        /\ (blk_in.content_size < Occupied /\ OnFragmentBoundary(blk_in.content_size))
              => \/ blk_result \in {"InvalidData", "Ok"}
                 \/ blk_result = "StructureInvalid" /\ blk_msg = "from_raw"

C3_Witness ==
    /\ BlockDone /\ blk_in.hdr_ok
    /\ blk_in.content_size < Occupied
    /\ ~OnFragmentBoundary(blk_in.content_size)
    /\ Len(contents) = 1
    /\ blk_result = "StructureInvalid"
    /\ blk_msg = "fragment exceeds remaining"

\* the input of C4: no fragment, content size 0, the hash of the empty contents
EmptyBlockInput ==
    /\ blk_in.hdr_ok
    /\ blk_in.frags = <<>>
    /\ blk_in.content_size = 0
    /\ blk_in.content_hash = HashBytes(<<>>)

\* C4 as stated: the empty block decodes, and the same bytes followed by one
\* extra byte, content size still 0, fail to decode.
C4_ExtraByteFails ==
    (BlockDone /\ EmptyBlockInput) =>
        /\ blk_in.tail = <<>> => blk_result = "Ok"
        /\ blk_in.tail # <<>> => blk_result # "Ok"

\* C4 amended: the empty block decodes, and so do the same bytes followed by
\* one extra byte: with content size 0 the loop reads nothing, the block
\* returned has no fragment and the extra byte stays unread in the reader.
C4_ExtraByteIsIgnored ==
    (BlockDone /\ EmptyBlockInput) =>
        /\ blk_result = "Ok"
        /\ contents = <<>>
        /\ reader = blk_in.tail

C4_Witness ==
    /\ BlockDone /\ EmptyBlockInput
    /\ blk_in.tail # <<>>
    /\ reader = blk_in.tail
    /\ blk_result = "Ok"

-----------------------------------------------------------------------------
(* Properties of FragmentRaw *)

-----------------------------------------------------------------------------
(* Properties of Tag and TagLen *)

TagLenNewDone == tl_pc = "done" /\ tl_in.tag \in Tags
TagLenRawDone == tl_pc = "done" /\ tl_in.tag = ""

\* C9: TagLen::new(t, l) returns a value exactly when l < 64 (None for 64 and
\* every larger length), and for l < 64 the value has get_tag() = Ok(t) and
\* get_len() = l.
C9_TagLenNew ==
    TagLenNewDone =>
        /\ (tl_new # None) <=> (tl_in.len < 64)
        /\ tl_in.len < 64 =>
              /\ tl_tag = Ok(tl_in.tag)
              /\ tl_len = tl_in.len

C9_Witness ==
    /\ TagLenNewDone
    /\ tl_in.tag = "TransactionMaxExpiryEpochs" /\ tl_in.len = 63
    /\ tl_new = Some(29 * 64 + 63)
    /\ tl_tag = Ok("TransactionMaxExpiryEpochs") /\ tl_len = 63

\* C10: Tag::from_u16 and `tag as u16` are inverses (from_u16(t as u16) is
\* Some(t); from_u16(n) = Some(t) only when t as u16 = n), the tag numbers are
\* pairwise distinct and below 1024, and a number of no tag makes
\* TagLen::get_tag fail with InvalidTag.
C10_TagNumbering ==
    /\ TagLenNewDone =>
          /\ tl_from = Some(tl_in.tag)
          /\ TagAsU16(tl_in.tag) < 1024
          /\ \A t \in Tags \ {tl_in.tag} : TagAsU16(t) # TagAsU16(tl_in.tag)
    /\ TagLenRawDone =>
          /\ tl_from # None =>
                (tl_from[1] \in Tags /\ TagAsU16(tl_from[1]) = tl_in.raw)
          /\ (\A t \in Tags : TagAsU16(t) # tl_in.raw \div 64)
                => tl_tag = Err("InvalidTag")
          /\ tl_tag.ok => TagAsU16(tl_tag.val) = tl_in.raw \div 64

C10_Witness ==
    /\ TagLenRawDone
    /\ tl_in.raw = 7 * 64 + 5
    /\ tl_from = None
    /\ tl_tag = Err("InvalidTag")

-----------------------------------------------------------------------------
(* ConfigParam and ConfigParams round trips *)

NoPerCertificateFee ==
    [certificate_pool_registration |-> << >>,
     certificate_stake_delegation |-> << >>,
     certificate_owner_stake_delegation |-> << >>]
NoPerVoteCertificateFee ==
    [certificate_vote_plan |-> << >>, certificate_vote_cast |-> << >>]

\* decoded is the LinearFee fee with its per-certificate fees reset
LinearFeeBaseOf(decoded, fee) ==
    /\ decoded.constant = fee.constant
    /\ decoded.coefficient = fee.coefficient
    /\ decoded.certificate = fee.certificate
    /\ decoded.per_certificate_fees = NoPerCertificateFee
    /\ decoded.per_vote_certificate_fees = NoPerVoteCertificateFee

HasPerCertificateFees(fee) ==
    \/ fee.per_certificate_fees # NoPerCertificateFee
    \/ fee.per_vote_certificate_fees # NoPerVoteCertificateFee

\* decoded is p, but for the per-certificate fees of a LinearFee
SameUpToPerCertificateFees(decoded, p) ==
    /\ decoded.tag = p.tag
    /\ IF p.tag = "LinearFee"
       THEN LinearFeeBaseOf(decoded.data, p.data)
       ELSE decoded.data = p.data

RECURSIVE EncodingsInOrder(_, _)
\* the encodings of entries i.. of the list, one after the other
EncodingsInOrder(params, i) ==
    IF i > Len(params) THEN << >>
    ELSE ConfigParamSerialize(params[i]).bytes \o EncodingsInOrder(params, i + 1)

\* the bytes are a big-endian 16-bit count of the entries and then the
\* entries' encodings in order
CountThenEntries(bytes, params) ==
    /\ Len(bytes) >= 2
    /\ bytes[1] = Len(params) \div 256
    /\ bytes[2] = Len(params) % 256
    /\ SubSeq(bytes, 3, Len(bytes)) = EncodingsInOrder(params, 1)

-----------------------------------------------------------------------------
(* ConfigParam: encode errors, payload sizes, the SlotsPerEpoch scenario *)

\* C11: ConfigParam::serialize returns an error and writes nothing, neither
\* a TagLen nor a payload byte, whenever the variant's payload is 64 bytes or
\* longer; whenever it writes, the two bytes of the TagLen carry in their low
\* six bits the real length of the payload, which follows in full.
C11_SerializeRejectsLongPayload ==
    cp_pc = "serialized" =>
        LET payload == ConfigParam_to_payload(cp_in) IN
        /\ Len(payload) >= 64 => (~cp_bytes.ok /\ cp_bytes.bytes = << >>)
        /\ cp_bytes.ok =>
              /\ Len(payload) < 64
              /\ Len(cp_bytes.bytes) = 2 + Len(payload)
              /\ cp_bytes.bytes[2] % 64 = Len(payload)
              /\ SubSeq(cp_bytes.bytes, 3, Len(cp_bytes.bytes)) = payload

C11_Witness ==
    /\ cp_pc = "serialized"
    /\ cp_in.tag = "EvmParams"
    /\ Len(ConfigParam_to_payload(cp_in)) > 400
    /\ ~cp_bytes.ok
    /\ cp_bytes.bytes = << >>

\* C12 as stated: for every tag, ConfigParam::read fails when the payload
\* length carried in the TagLen differs from the size of that tag's variant,
\* whether bytes are missing or bytes follow the variant's layout.
C12_ReadRejectsOtherSizes ==
    (cp_pc = "read_resized"
        /\ Len(cp_payload) # Len(ConfigParam_to_payload(cp_in))) => ~cp_out.ok

\* C13: ConfigParam::SlotsPerEpoch(43200) is written as the six bytes
\* 01 04 00 00 A8 C0, and ConfigParam::read and ConfigParam::deserialize of
\* those six bytes return ConfigParam::SlotsPerEpoch(43200).
C13_SlotsPerEpochBytes ==
    (cp_in.tag = "SlotsPerEpoch" /\ cp_in.data = 43200) =>
        /\ cp_pc \in {"serialized", "read", "deserialized"} =>
              (cp_bytes.ok /\ cp_bytes.bytes = << 1, 4, 0, 0, 168, 192 >>)
        /\ cp_pc \in {"read", "deserialized"} =>
              /\ cp_out.ok
              /\ cp_out.val.tag = "SlotsPerEpoch"
              /\ cp_out.val.data = 43200
              /\ cp_out.rest = << >>

C13_Witness ==
    /\ cp_pc = "read"
    /\ cp_in.tag = "SlotsPerEpoch"
    /\ cp_in.data = 43200
    /\ cp_bytes.bytes = << 1, 4, 0, 0, 168, 192 >>
    /\ cp_out.ok
    /\ cp_out.val.tag = "SlotsPerEpoch"

-----------------------------------------------------------------------------
(* PercentStake::scale_value *)

ScaledWith(stake, total) ==
    ps_pc = "scaled" /\ ps_self.stake = stake /\ ps_self.total = total

\* C14 as stated, for the totals above 0: PercentStake::new(total, total)
\* .scale_value(v) == v for every Value v.
C14_FullStakeScalesToValue ==
    (ps_pc = "scaled" /\ ps_self.stake = ps_self.total /\ ps_self.total > 0) =>
        (~ps_out.panic /\ ps_out.val = ps_args[3])

\* C15 as stated: PercentStake::new(0, total).scale_value(v) returns Value(0)
\* for every total and every v.
C15_ZeroStakeScalesToZeroAnyTotal ==
    (ps_pc = "scaled" /\ ps_self.stake = 0) => (~ps_out.panic /\ ps_out.val = 0)

\* C15: for every total stake above 0 and every Value v,
\* PercentStake::new(0, total).scale_value(v) returns Value(0); with a total
\* of 0 scale_value divides by zero and panics.
C15_ZeroStakeScalesToZero ==
    (ps_pc = "scaled" /\ ps_self.stake = 0) =>
        IF ps_self.total > 0
        THEN ~ps_out.panic /\ ps_out.val = 0
        ELSE ps_out.panic

C15_Witness ==
    /\ ScaledWith(0, 3)
    /\ ps_args[3] = 1000
    /\ ~ps_out.panic
    /\ ps_out.val = 0

\* C16 as stated, for the totals above 0: scale_value(v) is the floor of
\* v * stake / total, the 10^18 scale factor changing no result.
C16_ScaleValueIsExactQuotient ==
    (ps_pc = "scaled" /\ ps_self.total > 0) =>
        (~ps_out.panic /\ ps_out.val = (ps_args[3] * ps_self.stake) \div ps_self.total)

-----------------------------------------------------------------------------
(* Stake *)

\* st_vals[1] is parts * n + remaining with remaining < n
SplitIsExact ==
    /\ st_split.remaining[1] < st_n
    /\ st_split.remaining[2] = 0 /\ st_split.remaining[3] = 0 /\ st_split.remaining[4] = 0
    /\ LET scaled == U64MulSmall(st_split.parts, st_n) IN
       /\ scaled.carry = 0
       /\ U64Add(scaled.val, st_split.remaining) = [val |-> st_vals[1], carry |-> 0]

\* C17: for every Stake s and every n > 0, s.split_in(n) returns parts and
\* remaining such that parts.scale(n) + remaining does not panic and is
\* exactly s.
C17_SplitInRecombines ==
    /\ st_pc \in {"split", "recombined"} => (st_n > 0 /\ SplitIsExact)
    /\ st_pc = "recombined" => (~st_out.panic /\ st_out.val = st_vals[1])

C17_Witness ==
    /\ st_pc = "recombined"
    /\ st_vals[1] = << 65535, 65535, 65535, 65535 >>
    /\ st_n = 7
    /\ st_split.remaining = << 1, 0, 0, 0 >>
    /\ st_out.val = st_vals[1]

RECURSIVE LimbSum(_, _)
\* the sum of limb i of the stakes
LimbSum(values, i) ==
    IF values = << >> THEN 0 ELSE Head(values)[i] + LimbSum(Tail(values), i)

\* the sum of the stakes, over the integers, is 2^64 or more
SumExceedsU64(values) ==
    LET c1 == LimbSum(values, 1)
        c2 == LimbSum(values, 2) + c1 \div 65536
        c3 == LimbSum(values, 3) + c2 \div 65536
        c4 == LimbSum(values, 4) + c3 \div 65536
    IN  c4 \div 65536 > 0

\* C18 as stated: when the true sum exceeds the 64-bit range, a + b, a += b
\* and Stake::sum report the overflow and return no magnitude.
C18_StakeAdditionIsChecked ==
    /\ (st_pc \in {"added", "add_assigned"}
           /\ SumExceedsU64(<< st_vals[1], st_vals[2] >>)) => st_out.panic
    /\ (st_pc = "summed" /\ SumExceedsU64(st_vals)) => st_out.panic

-----------------------------------------------------------------------------
(* Pots *)

\* C19: for every Pots and every expected amount, draw_reward(expected)
\* does not fail, returns the smaller of expected and the rewards before the
\* call, and leaves rewards at what they were less the amount returned.
C19_DrawRewardIsCapped ==
    pots_last.op = "draw_reward" =>
        /\ ~pots_last.panic
        /\ pots_last.ret = IF U64Less(pots_last.arg, pots_last.before.rewards)
                           THEN pots_last.arg
                           ELSE pots_last.before.rewards
        /\ U64Add(pots.rewards, pots_last.ret)
              = [val |-> pots_last.before.rewards, carry |-> 0]

C19_Witness ==
    /\ pots_last.op = "draw_reward"
    /\ pots_last.before.rewards = << 5, 0, 0, 0 >>
    /\ pots_last.arg = << 65535, 65535, 65535, 65535 >>
    /\ pots_last.ret = << 5, 0, 0, 0 >>
    /\ pots.rewards = << 0, 0, 0, 0 >>

\* C20: for every Pots, siphon_fees() returns the fees held before the call
\* and leaves fees at 0; a second siphon_fees() right after it returns 0.
C20_SiphonFeesEmptiesFees ==
    pots_last.op = "siphon_fees" =>
        /\ ~pots_last.panic
        /\ pots_last.ret = pots_last.before.fees
        /\ pots.fees = << 0, 0, 0, 0 >>
        /\ pots_prev.op = "siphon_fees" => pots_last.ret = << 0, 0, 0, 0 >>

C20_Witness ==
    /\ pots_prev.op = "siphon_fees"
    /\ pots_prev.ret = << 65535, 65535, 65535, 65535 >>
    /\ pots_last.op = "siphon_fees"
    /\ pots_last.ret = << 0, 0, 0, 0 >>
    /\ pots.fees = << 0, 0, 0, 0 >>

\* C21: append_fees(v) succeeds exactly when fees + v fits in 64 bits, and
\* then fees is the sum; when the sum does not fit it returns
\* Error::PotValueInvalid and the fees keep the value they had, so that no
\* wrapped or saturated amount is stored.
C21_AppendFeesIsChecked ==
    pots_last.op = "append_fees" =>
        LET sum == U64Add(pots_last.before.fees, pots_last.arg) IN
        /\ ~pots_last.panic
        /\ pots_last.err = "" <=> sum.carry = 0
        /\ pots_last.err = "" => pots.fees = sum.val
        /\ pots_last.err # "" =>
              /\ pots_last.err = "PotValueInvalid"
              /\ pots.fees = pots_last.before.fees

C21_Witness ==
    /\ pots_prev.op = "append_fees"
    /\ pots_prev.err = ""
    /\ pots_prev.arg = << 5, 0, 0, 0 >>
    /\ pots_last.op = "append_fees"
    /\ pots_last.arg = << 65535, 65535, 65535, 65535 >>
    /\ pots_last.err = "PotValueInvalid"
    /\ pots.fees = pots_last.before.fees
    /\ pots.fees # << 65535, 65535, 65535, 65535 >>

\* the items every iterator over the pots has to return, call after call
ExpectedItem(i) ==
    CASE i = 1 -> Some([type |-> "Fees", value |-> pots.fees])
      [] i = 2 -> Some([type |-> "Treasury", value |-> pots.treasury])
      [] i = 3 -> Some([type |-> "Rewards", value |-> pots.rewards])
      [] OTHER -> None

\* C22: an iterator made by Pots::entries() yields Fees(fees),
\* Treasury(treasury value) and Rewards(rewards) in this order, each with
\* the value the pots hold, and None on the fourth and on every later call;
\* this holds of every iterator made from the same Pots, so a new one
\* starts again at Fees.
C22_EntriesYieldThreeThenNone ==
    /\ \A i \in 1..Len(it_out) : it_out[i] = ExpectedItem(i)
    /\ it_state = CASE it_made = 0 -> "none"
                     [] Len(it_out) = 0 -> "Fees"
                     [] Len(it_out) = 1 -> "Treasury"
                     [] Len(it_out) = 2 -> "Rewards"
                     [] OTHER -> "Done"

C22_Witness ==
    /\ it_made = 2
    /\ Len(it_out) = 5
    /\ it_out[1] = Some([type |-> "Fees", value |-> << 5, 0, 0, 0 >>])
    /\ it_out[2] = Some([type |-> "Treasury", value |-> << 0, 0, 1, 0 >>])
    /\ it_out[3] = Some([type |-> "Rewards", value |-> << 1, 0, 0, 0 >>])
    /\ it_out[4] = None
    /\ it_out[5] = None

\* the sum of the values over the integers, as five 16-bit limbs
Total(values) ==
    LET c1 == LimbSum(values, 1)
        c2 == LimbSum(values, 2) + c1 \div 65536
        c3 == LimbSum(values, 3) + c2 \div 65536
        c4 == LimbSum(values, 4) + c3 \div 65536
    IN  << c1 % 65536, c2 % 65536, c3 % 65536, c4 % 65536, c4 \div 65536 >>

\* what a call added to the fees and the rewards
Added(call) ==
    IF call.op \in { "append_fees", "rewards_add" } /\ call.err = ""
    THEN call.arg
    ELSE U64Zero

\* what a call handed to its caller out of the fees and the rewards
Returned(call) ==
    IF call.op \in { "draw_reward", "siphon_fees" } THEN call.ret ELSE U64Zero

\* C29: over the calls of append_fees, rewards_add, draw_reward and
\* siphon_fees, fees + rewards plus the amounts returned by draw_reward and
\* siphon_fees equals the fees + rewards before the calls plus the amounts
\* successfully added; a failed addition adds nothing. Stated of the last
\* call and of the last two calls together.
C29_FeesAndRewardsConserved ==
    /\ pots_last.op # "none" =>
          Total(<< pots.fees, pots.rewards, Returned(pots_last) >>)
            = Total(<< pots_last.before.fees, pots_last.before.rewards,
                       Added(pots_last) >>)
    /\ pots_prev.op # "none" =>
          Total(<< pots.fees, pots.rewards, Returned(pots_last), Returned(pots_prev) >>)
            = Total(<< pots_prev.before.fees, pots_prev.before.rewards,
                       Added(pots_prev), Added(pots_last) >>)

C29_Witness ==
    /\ pots_prev.op = "rewards_add"
    /\ pots_prev.err = "PotValueInvalid"
    /\ pots_prev.arg = << 1, 0, 0, 0 >>
    /\ pots_last.op = "draw_reward"
    /\ pots_last.ret = << 0, 0, 1, 0 >>
    /\ pots.rewards = << 65535, 65535, 65534, 65535 >>

\* C30: append_fees and siphon_fees leave the treasury and the rewards as
\* they were, draw_reward and rewards_add leave the fees and the treasury
\* as they were, and a call that returns an error leaves all three pools as
\* they were.
C30_MutatorsChangeOnlyTheirPool ==
    /\ pots_last.op \in { "append_fees", "siphon_fees" } =>
          /\ pots.treasury = pots_last.before.treasury
          /\ pots.rewards = pots_last.before.rewards
    /\ pots_last.op \in { "draw_reward", "rewards_add" } =>
          /\ pots.fees = pots_last.before.fees
          /\ pots.treasury = pots_last.before.treasury
    /\ pots_last.err # "" => pots = pots_last.before

C30_Witness ==
    /\ pots_prev.op = "append_fees"
    /\ pots_prev.err = "PotValueInvalid"
    /\ pots_last.op = "rewards_add"
    /\ pots_last.err = ""
    /\ pots_last.arg = << 5, 0, 0, 0 >>
    /\ pots.rewards = << 6, 0, 0, 0 >>
    /\ pots.fees = << 65535, 65535, 65535, 65535 >>
    /\ pots.treasury = << 0, 0, 1, 0 >>

-----------------------------------------------------------------------------
(* Properties of the fragment loop of Block::deserialize *)

\* the fragment the next iteration of the loop reads
NextFragment == FragmentRawDeserialize(reader)

\* the next iteration reads a whole fragment whose framed size exceeds the counter
ReadsOversizedFragment ==
    /\ blk_pc = "loop"
    /\ remaining_content_size > 0
    /\ NextFragment.ok
    /\ 4 + Len(NextFragment.raw) > remaining_content_size

\* C26: the remaining-content counter starts at the header's content size
\* and is lowered by the framed size of each accepted fragment; whenever the
\* loop reads a fragment whose framed size (4 + payload length) exceeds the
\* counter, Block::deserialize returns StructureInvalid and the fragment
\* is not added to the contents.
C26_OversizedFragmentIsStructureInvalid ==
    /\ []((blk_pc \in { "loop", "done" } /\ blk_in.hdr_ok) =>
             remaining_content_size = header.content_size - FramedSizeSum(contents))
    /\ [][ReadsOversizedFragment =>
             /\ blk_pc' = "done"
             /\ blk_result' = "StructureInvalid"
             /\ contents' = contents
             /\ remaining_content_size' = remaining_content_size]_vars

C26_Witness ==
    /\ BlockDone
    /\ blk_result = "StructureInvalid"
    /\ blk_msg = "fragment exceeds remaining"
    /\ header.content_size = 9
    /\ contents = << << >> >>
    /\ remaining_content_size = 5
    /\ Len(blk_in.frags) = 2
    /\ Len(blk_in.frags[2]) = 2

\* the fragment loop is over: its condition failed or an error returned from it
LoopExited ==
    \/ blk_pc = "done"
    \/ blk_pc = "loop" /\ remaining_content_size <= 0

-----------------------------------------------------------------------------
(* Properties of PercentStake::scale_value over the whole u64 range *)

\* C28: for a PercentStake with stake <= total and total > 0 and any Value v,
\* neither u128 intermediate of scale_value (v * 10^18, and
\* floor(v * 10^18 / total) * stake) reaches 2^128, and the result is at
\* most v, so that it fits in the u64 it is narrowed to.
C28_ScaleValueStaysInRange ==
    (ps_pc = "scaled" /\ ps_self.stake <= ps_self.total /\ ps_self.total > 0) =>
        /\ ~ps_out.panic
        /\ DecLess(ps_out.scaled, DecTwo128)
        /\ DecLess(ps_out.product, DecTwo128)
        /\ DecLeq(ps_out.val, ps_args[3])
        /\ DecLeq(ps_out.val, DecU64Max)

C28_Witness ==
    /\ ps_pc = "scaled"
    /\ ps_args = << 2000000, 2000000, DecU64Max >>
    /\ DecTrim(ps_out.scaled) = << 0, 0, 0, 0, 0, 0, 615, 551, 709, 73, 744, 446, 18 >>
    /\ DecTrim(ps_out.product) = DecTrim(ps_out.scaled)
    /\ DecTrim(ps_out.val) = DecU64Max

-----------------------------------------------------------------------------
(* Properties of the ledger's entry stream *)

\* the entry-specific bytes of an entry
EntryEncoding(e) == IF e.kind = "Pot" THEN pack_pot_entry(e.pot) ELSE e.body

RECURSIVE IsEntryStream(_, _)
\* bytes is, for each of the entries in order, a code byte in 0..10 followed
\* by the entry's encoding
IsEntryStream(bytes, entries) ==
    IF entries = << >> THEN bytes = << >>
    ELSE LET enc == EntryEncoding(Head(entries)) IN
         /\ Len(bytes) >= 1 + Len(enc)
         /\ bytes[1] \in 0..10
         /\ SubSeq(bytes, 2, 1 + Len(enc)) = enc
         /\ IsEntryStream(SubSeq(bytes, 2 + Len(enc), Len(bytes)), Tail(entries))

C25_PotEntryRoundTrip ==
    (rec_pc = "pot unpacked") =>
        /\ rec_in.type # "None" =>
              /\ Len(rec_bytes) = 9
              /\ rec_out.ok
              /\ rec_out.entry = rec_in
              /\ rec_out.rest = << >>
        /\ rec_bytes[1] \notin { 0, 1, 2 } =>
              /\ ~rec_out.ok
              /\ rec_out.err = "InvalidData"

C25_Witness ==
    /\ rec_pc = "pot unpacked"
    /\ rec_in = [type |-> "Treasury", value |-> << 1800, 1286, 772, 258 >>]
    /\ rec_bytes = << 1, 1, 2, 3, 4, 5, 6, 7, 8 >>
    /\ rec_out.ok
    /\ rec_out.entry = rec_in

====
